---- MODULE Spec2Model ----
(***************************************************************************)
(* Budget tracker (src/budget.js, first BudgetSystem class): the session   *)
(* state, the direct-entry path, the CSV import reconciler, the mapping    *)
(* table and the opening/closing balance engine.                           *)
(*                                                                         *)
(* Texts are sequences of symbols.  A symbol is one character (a quote, a  *)
(* parenthesis, a blank) or an indivisible run of letters; Hebrew words of *)
(* the source are written in Latin letters (SYQ is shin-yod-qof, "check"). *)
(* Amounts are integers counted in half agorot (0.005), so that the        *)
(* duplicate tolerance 0.01 of the source is 2 units.                      *)
(***************************************************************************)
EXTENDS Integers, Sequences, FiniteSets, TLC

VARIABLES transactions, importedCheckItems, mappings, incomeItems, categories,
          openingBalances,
          manualOpeningBalances, currentYear, lastSelectedYear, currentTab,
          pendingTab, monthSelect, dataEntryMonthSelect, editId, editMonth,
          budgetData, pendingSave, csvFile, nextId, ev,
          dropboxSync, dropboxFile, requests, exportFile

vars == <<transactions, importedCheckItems, mappings, incomeItems, categories,
          openingBalances,
          manualOpeningBalances, currentYear, lastSelectedYear, currentTab,
          pendingTab, monthSelect, dataEntryMonthSelect, editId, editMonth,
          budgetData, pendingSave, csvFile, nextId, ev,
          dropboxSync, dropboxFile, requests, exportFile>>

-----------------------------------------------------------------------------
(* Bounds of the model *)

\* months 1..MaxMonth are used (the source has 12)
MaxMonth == 2
\* ids handed out in one behaviour (transactions and check items together)
MaxId == 2
\* data rows of one CSV batch
MaxRows == 2
\* timestamps the Dropbox file goes through in one behaviour
MaxModified == 3
\* metadata requests on their way at a time
MaxPolls == 1

Months == 1..MaxMonth
\* the last month of the year
December == MaxMonth
Years == {2024, 2025}

-----------------------------------------------------------------------------
(* Texts *)

DQ == "\""
\* U+05F4 gershayim and U+05F3 geresh
Gershayim == "gershayim"
Geresh == "geresh"
Blank == " "

\* shin-yod-qof, the check word, and the bracketed marker "(SYQ)"
CheckWord == <<"SYQ">>
CheckMarker == <<"(", "SYQ", ")">>

RECURSIVE Without(_, _)
\* s.replace(/[chars]/g, '')
Without(s, chars) ==
    IF s = <<>> THEN <<>>
    ELSE IF Head(s) \in chars THEN Without(Tail(s), chars)
         ELSE <<Head(s)>> \o Without(Tail(s), chars)

RECURSIVE TrimLeft(_)
TrimLeft(s) == IF s # <<>> /\ Head(s) = Blank THEN TrimLeft(Tail(s)) ELSE s

RECURSIVE TrimRight(_)
TrimRight(s) ==
    IF s # <<>> /\ s[Len(s)] = Blank THEN TrimRight(SubSeq(s, 1, Len(s) - 1)) ELSE s

\* String.prototype.trim
Trim(s) == TrimRight(TrimLeft(s))

\* String.prototype.includes
Includes(s, sub) ==
    \E i \in 0..(Len(s) - Len(sub)) : SubSeq(s, i + 1, i + Len(sub)) = sub

\* String.prototype.startsWith
StartsWith(s, pre) == Len(pre) <= Len(s) /\ SubSeq(s, 1, Len(pre)) = pre

\* String.prototype.toLowerCase: the capital letters in use are S and M
LowerOf(c) == IF c = "S" THEN "s" ELSE IF c = "M" THEN "m" ELSE c
toLowerCase(s) == [i \in 1..Len(s) |-> LowerOf(s[i])]

\* the item normalisation of the import reconciler (double quote, gershayim, geresh)
StripImportQuotes(s) == Without(s, {DQ, Gershayim, Geresh})

\* the item normalisation of getCategoryForItem (double quote, gershayim)
StripQuotes(s) == Without(s, {DQ, Gershayim})

-----------------------------------------------------------------------------
(* Numbers read from text.  A numeral is one symbol (a run of digits with   *)
(* an optional sign); NumValue gives the number it denotes.                *)

NumValue ==
    ("0" :> 0) @@ ("1" :> 1) @@ ("2" :> 2) @@ ("3" :> 3) @@ ("4" :> 4) @@ ("5" :> 5) @@ ("6" :> 6) @@ ("7" :> 7) @@
    ("-4" :> -4) @@ ("2024" :> 2024) @@ ("2025" :> 2025) @@
    ("01" :> 1) @@ ("02" :> 2) @@ ("03" :> 3) @@ ("04" :> 4) @@ ("05" :> 5) @@
    ("06" :> 6) @@ ("07" :> 7) @@ ("08" :> 8) @@ ("09" :> 9) @@ ("10" :> 10) @@
    ("11" :> 11) @@ ("12" :> 12)

\* parseFloat and parseInt read the leading numeral of the trimmed text and
\* ignore what follows it; nan is TRUE when there is none
parseFloat(s) ==
    IF Trim(s) # <<>> /\ Trim(s)[1] \in DOMAIN NumValue
    THEN [nan |-> FALSE, v |-> NumValue[Trim(s)[1]]]
    ELSE [nan |-> TRUE, v |-> 0]

parseInt(s) == parseFloat(s)

Abs(n) == IF n < 0 THEN -n ELSE n

-----------------------------------------------------------------------------
(* Category mapping table: an insertion-ordered Map item -> category *)

\* electricity (a default mapping), coffee (no mapping)
Electric == <<"XSML">>
Coffee == <<"QPH">>

Taxes == "taxes"
Misc == "misc"
Uncategorized == "uncategorized"
DepositCategory == "bank savings deposit"
NationalInsurance == "national insurance"

\* the deposit markers PQDWN and PYQDWN, the national insurance family
Deposit1 == <<"PQDWN">>
Deposit2 == <<"PYQDWN">>
BituachLeumi == <<"BYTWX", Blank, "LAWMY">>
BituachLeumiG == <<"BYTWX", Blank, "LAWMY", Blank, "G">>

\* salary (a default income item)
Salary == <<"MSKWRT">>
SalaryCategory == "salary"

\* initializeDefaultMappings (excerpts of the default categories, the default
\* income items and the default table)
defaultCategories == <<NationalInsurance, DepositCategory, Taxes, Misc>>

defaultIncomeItems == <<Salary, BituachLeumi>>

defaultMappings ==
    << [item |-> Salary, category |-> SalaryCategory, includeInMonthlyExpenses |-> FALSE],
       [item |-> Electric, category |-> Taxes, includeInMonthlyExpenses |-> FALSE] >>

MapHas(m, k) == \E i \in 1..Len(m) : m[i].item = k
MapIndex(m, k) == CHOOSE i \in 1..Len(m) : m[i].item = k
MapGet(m, k) == m[MapIndex(m, k)]
\* Map.set: an existing key keeps its place
MapSet(m, k, c, inc) ==
    LET e == [item |-> k, category |-> c, includeInMonthlyExpenses |-> inc]
    IN  IF MapHas(m, k) THEN [m EXCEPT ![MapIndex(m, k)] = e] ELSE Append(m, e)
MapDelete(m, k) ==
    IF MapHas(m, k)
    THEN SubSeq(m, 1, MapIndex(m, k) - 1) \o SubSeq(m, MapIndex(m, k) + 1, Len(m))
    ELSE m

OrUncategorized(c) == IF c = "" THEN Uncategorized ELSE c

\* getCategoryForItem with the mapping table asked before the special cases
getCategoryForItemMappingFirst(m, item) ==
    LET normalizedItem == StripQuotes(Trim(item))
        hits == {i \in 1..Len(m) : \/ Includes(normalizedItem, m[i].item)
                                  \/ Includes(m[i].item, normalizedItem)}
    IN  IF MapHas(m, normalizedItem)
        THEN OrUncategorized(MapGet(m, normalizedItem).category)
        ELSE IF hits # {}
        THEN OrUncategorized(m[CHOOSE i \in hits : \A j \in hits : i <= j].category)
        ELSE IF Includes(normalizedItem, Deposit1) \/ Includes(normalizedItem, Deposit2)
        THEN DepositCategory
        ELSE IF \/ normalizedItem = BituachLeumi
                \/ normalizedItem = BituachLeumiG
                \/ StartsWith(normalizedItem, BituachLeumiG)
        THEN NationalInsurance
        ELSE Uncategorized

\* getCategoryForItem with a partial match that ignores letter case
getCategoryForItemIgnoringCase(m, item) ==
    LET normalizedItem == StripQuotes(Trim(item))
        hits == {i \in 1..Len(m) :
                    \/ Includes(toLowerCase(normalizedItem), toLowerCase(m[i].item))
                    \/ Includes(toLowerCase(m[i].item), toLowerCase(normalizedItem))}
    IN  IF Includes(normalizedItem, Deposit1) \/ Includes(normalizedItem, Deposit2)
        THEN DepositCategory
        ELSE IF \/ normalizedItem = BituachLeumi
                \/ normalizedItem = BituachLeumiG
                \/ StartsWith(normalizedItem, BituachLeumiG)
        THEN NationalInsurance
        ELSE IF MapHas(m, normalizedItem)
        THEN OrUncategorized(MapGet(m, normalizedItem).category)
        ELSE IF hits # {}
        THEN OrUncategorized(m[CHOOSE i \in hits : \A j \in hits : i <= j].category)
        ELSE Uncategorized

getCategoryForItem(m, item) ==
    LET normalizedItem == StripQuotes(Trim(item))
        hits == {i \in 1..Len(m) : \/ Includes(normalizedItem, m[i].item)
                                  \/ Includes(m[i].item, normalizedItem)}
    IN  IF Includes(normalizedItem, Deposit1) \/ Includes(normalizedItem, Deposit2)
        THEN DepositCategory
        ELSE IF \/ normalizedItem = BituachLeumi
                \/ normalizedItem = BituachLeumiG
                \/ StartsWith(normalizedItem, BituachLeumiG)
        THEN NationalInsurance
        ELSE IF MapHas(m, normalizedItem)
        THEN OrUncategorized(MapGet(m, normalizedItem).category)
        ELSE IF hits # {}
        THEN OrUncategorized(m[CHOOSE i \in hits : \A j \in hits : i <= j].category)
        ELSE Uncategorized

\* the markers of getTransactionType: withdrawal (MSYK-), redemption,
\* interest, placement (HPQD-)
Withdrawal == <<"MSYK">>
Redemption == <<"PRAWN">>
Interest == <<"RYBYT">>
Placement == <<"HPQD">>

\* getTransactionType without the deposit special cases
getTransactionTypeIncomeItemsOnly(items, item) ==
    IF \E i \in 1..Len(items) : items[i] = item
    THEN "income"
    ELSE IF \E i \in 1..Len(items) : Includes(item, items[i]) \/ Includes(items[i], item)
    THEN "income"
    ELSE "expense"

\* items is the income item set, in insertion order
getTransactionType(items, item) ==
    LET normalizedItem == toLowerCase(Trim(item))
        deposit == Includes(normalizedItem, Deposit1) \/ Includes(normalizedItem, Deposit2)
    IN  IF deposit /\ (\/ Includes(normalizedItem, Withdrawal)
                       \/ Includes(normalizedItem, Redemption)
                       \/ Includes(normalizedItem, Interest))
        THEN "income"
        ELSE IF deposit /\ Includes(normalizedItem, Placement)
        THEN "expense"
        ELSE IF \E i \in 1..Len(items) : items[i] = item
        THEN "income"
        ELSE IF \E i \in 1..Len(items) : Includes(item, items[i]) \/ Includes(items[i], item)
        THEN "income"
        ELSE "expense"

-----------------------------------------------------------------------------
(* Balance engine *)

\* the period key `${year}-${month}`
Key(year, month) == <<year, month>>

RECURSIVE SumAmounts(_, _, _, _)
\* the filter/reduce of calculateClosingBalance over one type; a transaction
\* with no year (0) counts for the year asked for
SumAmounts(txs, type, month, year) ==
    IF txs = <<>> THEN 0
    ELSE LET t == Head(txs)
             transactionYear == IF t.year = 0 THEN year ELSE t.year
             mine == t.month = month /\ transactionYear = year /\ t.type = type
         IN  (IF ~mine THEN 0
              ELSE IF type = "expense" THEN Abs(t.amount) ELSE t.amount)
             + SumAmounts(Tail(txs), type, month, year)

StoredOpening(ob, year, month) ==
    IF Key(year, month) \in DOMAIN ob THEN ob[Key(year, month)] ELSE 0

ClosingOf(txs, ob, month, year) ==
    StoredOpening(ob, year, month)
    + SumAmounts(txs, "income", month, year)
    - SumAmounts(txs, "expense", month, year)
    + SumAmounts(txs, "transfer", month, year)

calculateClosingBalance(month, year) ==
    ClosingOf(transactions, openingBalances, month, year)

\* updateBalanceSummary, but a stored opening balance is never derived again
\* updateBalanceSummary, but January chains from December of the year before
updateBalanceSummaryAcrossYears(txs, ob, manual, year, month) ==
    LET key == Key(year, month)
        stored == key \in DOMAIN ob
        autoBalance == IF month = 1 THEN ClosingOf(txs, ob, December, year - 1)
                       ELSE ClosingOf(txs, ob, month - 1, year)
    IN  IF ~stored \/ key \notin manual
        THEN IF autoBalance # 0
             THEN [openingBalances |-> (key :> autoBalance) @@ ob,
                   openingBalance |-> autoBalance, saved |-> TRUE]
             ELSE [openingBalances |-> ob, openingBalance |-> 0, saved |-> FALSE]
        ELSE [openingBalances |-> ob,
              openingBalance |-> IF stored THEN ob[key] ELSE 0, saved |-> FALSE]

\* updateBalanceSummary, but a derived value of zero is cached and saved too
updateBalanceSummaryCachesZero(txs, ob, manual, year, month) ==
    LET key == Key(year, month)
        stored == key \in DOMAIN ob
        autoBalance == ClosingOf(txs, ob, month - 1, year)
    IN  IF (~stored \/ key \notin manual) /\ month # 1
        THEN [openingBalances |-> (key :> autoBalance) @@ ob,
              openingBalance |-> autoBalance, saved |-> TRUE]
        ELSE [openingBalances |-> ob,
              openingBalance |-> IF stored THEN ob[key] ELSE 0, saved |-> FALSE]

updateBalanceSummaryKeepsStored(txs, ob, manual, year, month) ==
    LET key == Key(year, month)
        stored == key \in DOMAIN ob
        autoBalance == ClosingOf(txs, ob, month - 1, year)
    IN  IF ~stored /\ month # 1
        THEN IF autoBalance # 0
             THEN [openingBalances |-> (key :> autoBalance) @@ ob,
                   openingBalance |-> autoBalance, saved |-> TRUE]
             ELSE [openingBalances |-> ob, openingBalance |-> 0, saved |-> FALSE]
        ELSE [openingBalances |-> ob,
              openingBalance |-> IF stored THEN ob[key] ELSE 0, saved |-> FALSE]

\* updateBalanceSummary, but the manual set is not consulted
updateBalanceSummaryIgnoresManual(txs, ob, manual, year, month) ==
    LET key == Key(year, month)
        stored == key \in DOMAIN ob
        autoBalance == ClosingOf(txs, ob, month - 1, year)
    IN  IF month # 1
        THEN IF autoBalance # 0
             THEN [openingBalances |-> (key :> autoBalance) @@ ob,
                   openingBalance |-> autoBalance, saved |-> TRUE]
             ELSE [openingBalances |-> ob, openingBalance |-> 0, saved |-> FALSE]
        ELSE [openingBalances |-> ob,
              openingBalance |-> IF stored THEN ob[key] ELSE 0, saved |-> FALSE]

\* the opening balance updateBalanceSummary shows for a month of the current
\* year, and the map it leaves: derived from the previous month's closing
\* balance unless the key is stored and manual; a non-zero derived value is
\* cached and saved
updateBalanceSummary(txs, ob, manual, year, month) ==
    LET key == Key(year, month)
        stored == key \in DOMAIN ob
        autoBalance == ClosingOf(txs, ob, month - 1, year)
    IN  IF (~stored \/ key \notin manual) /\ month # 1
        THEN IF autoBalance # 0
             THEN [openingBalances |-> (key :> autoBalance) @@ ob,
                   openingBalance |-> autoBalance, saved |-> TRUE]
             ELSE [openingBalances |-> ob, openingBalance |-> 0, saved |-> FALSE]
        ELSE [openingBalances |-> ob,
              openingBalance |-> IF stored THEN ob[key] ELSE 0, saved |-> FALSE]

-----------------------------------------------------------------------------
(* Import reconciler *)

expectedHeaders == << <<"SNH">>, <<"XWDS">>, <<"PRYT">>, <<"XWBH">>, <<"ZKWT">> >>

\* the Hebrew month names of monthMap, January to December
monthMap ==
    ("YNWAR" :> "01") @@ ("PBRWAR" :> "02") @@ ("MRC" :> "03") @@ ("APRYL" :> "04") @@
    ("MAY" :> "05") @@ ("YWNY" :> "06") @@ ("YWLY" :> "07") @@ ("AWGWST" :> "08") @@
    ("SPTMBR" :> "09") @@ ("AWQTWBR" :> "10") @@ ("NWBMBR" :> "11") @@ ("DCMBR" :> "12")

hasCorrectHeaders(header) ==
    \A i \in 1..Len(expectedHeaders) :
        /\ i <= Len(header)
        /\ Trim(header[i]) # <<>>
        /\ Without(Trim(header[i]), {DQ}) = expectedHeaders[i]

\* the category of a transaction row as the mapping table gives it, also for
\* a check payment
importCategoryOfMapping(m, item) == getCategoryForItem(m, item)

\* the category parseAndValidateCSV gives a transaction row: the fixed one
\* of check payments when the item holds the check word, else that of
\* getCategoryForItem
importCategory(m, item) ==
    IF Includes(item, CheckWord) THEN Misc ELSE getCategoryForItem(m, item)

\* parseRow, but a row whose amount is not a number is skipped
parseRowSkipsBadAmount(m, values) ==
    LET year == Trim(values[1])
        monthName == Trim(values[2])
        item == StripImportQuotes(Trim(values[3]))
        debit == Trim(values[4])
        credit == Trim(values[5])
        isCheckItem == item = CheckMarker
        knownMonth == Len(monthName) = 1 /\ monthName[1] \in DOMAIN monthMap
        month == monthMap[monthName[1]]
        useCredit == credit # <<>>
        useDebit == ~useCredit /\ debit # <<>>
        parsed == IF useCredit THEN parseFloat(credit) ELSE parseFloat(debit)
        amount == IF useCredit THEN parsed.v ELSE -Abs(parsed.v)
        type == IF useCredit THEN "income" ELSE "expense"
        isCheckPayment == Includes(item, CheckWord)
        period == [month |-> month, year |-> year]
    IN  IF Len(values) < 5 THEN [kind |-> "skip", counted |-> FALSE]
        ELSE IF ~knownMonth THEN [kind |-> "fail", error |-> "monthName"]
        ELSE IF ~useCredit /\ ~useDebit
        THEN [kind |-> "skip", counted |-> TRUE, period |-> period]
        ELSE IF parsed.nan THEN [kind |-> "skip", counted |-> TRUE, period |-> period]
        ELSE IF isCheckItem
        THEN [kind |-> "checkItem", counted |-> TRUE, period |-> period,
              out |-> [item |-> <<"HWCAWT", Blank, "XWDS", Blank, monthName[1]>>,
                       amount |-> amount,
                       month |-> NumValue[month],
                       year |-> parseInt(year).v]]
        ELSE [kind |-> "transaction", counted |-> TRUE, period |-> period,
              out |-> [item |-> item,
                       amount |-> amount,
                       type |-> type,
                       category |-> importCategory(m, item),
                       month |-> NumValue[month],
                       year |-> parseInt(year).v,
                       paymentMethod |-> IF isCheckPayment THEN "check" ELSE "cash"]]

\* parseRow, but the debit column is looked at before the credit column
parseRowDebitFirst(m, values) ==
    LET year == Trim(values[1])
        monthName == Trim(values[2])
        item == StripImportQuotes(Trim(values[3]))
        debit == Trim(values[4])
        credit == Trim(values[5])
        isCheckItem == item = CheckMarker
        knownMonth == Len(monthName) = 1 /\ monthName[1] \in DOMAIN monthMap
        month == monthMap[monthName[1]]
        useDebit == debit # <<>>
        useCredit == ~useDebit /\ credit # <<>>
        parsed == IF useCredit THEN parseFloat(credit) ELSE parseFloat(debit)
        amount == IF useCredit THEN parsed.v ELSE -Abs(parsed.v)
        type == IF useCredit THEN "income" ELSE "expense"
        isCheckPayment == Includes(item, CheckWord)
        period == [month |-> month, year |-> year]
    IN  IF Len(values) < 5 THEN [kind |-> "skip", counted |-> FALSE]
        ELSE IF ~knownMonth THEN [kind |-> "fail", error |-> "monthName"]
        ELSE IF ~useCredit /\ ~useDebit
        THEN [kind |-> "skip", counted |-> TRUE, period |-> period]
        ELSE IF parsed.nan THEN [kind |-> "fail", error |-> "amount"]
        ELSE IF isCheckItem
        THEN [kind |-> "checkItem", counted |-> TRUE, period |-> period,
              out |-> [item |-> <<"HWCAWT", Blank, "XWDS", Blank, monthName[1]>>,
                       amount |-> amount,
                       month |-> NumValue[month],
                       year |-> parseInt(year).v]]
        ELSE [kind |-> "transaction", counted |-> TRUE, period |-> period,
              out |-> [item |-> item,
                       amount |-> amount,
                       type |-> type,
                       category |-> importCategory(m, item),
                       month |-> NumValue[month],
                       year |-> parseInt(year).v,
                       paymentMethod |-> IF isCheckPayment THEN "check" ELSE "cash"]]

\* parseRow, but the row of the check marker stays a transaction
parseRowKeepsCheckMarker(m, values) ==
    LET year == Trim(values[1])
        monthName == Trim(values[2])
        item == StripImportQuotes(Trim(values[3]))
        debit == Trim(values[4])
        credit == Trim(values[5])
        isCheckItem == FALSE
        knownMonth == Len(monthName) = 1 /\ monthName[1] \in DOMAIN monthMap
        month == monthMap[monthName[1]]
        useCredit == credit # <<>>
        useDebit == ~useCredit /\ debit # <<>>
        parsed == IF useCredit THEN parseFloat(credit) ELSE parseFloat(debit)
        amount == IF useCredit THEN parsed.v ELSE -Abs(parsed.v)
        type == IF useCredit THEN "income" ELSE "expense"
        isCheckPayment == Includes(item, CheckWord)
        period == [month |-> month, year |-> year]
    IN  IF Len(values) < 5 THEN [kind |-> "skip", counted |-> FALSE]
        ELSE IF ~knownMonth THEN [kind |-> "fail", error |-> "monthName"]
        ELSE IF ~useCredit /\ ~useDebit
        THEN [kind |-> "skip", counted |-> TRUE, period |-> period]
        ELSE IF parsed.nan THEN [kind |-> "fail", error |-> "amount"]
        ELSE IF isCheckItem
        THEN [kind |-> "checkItem", counted |-> TRUE, period |-> period,
              out |-> [item |-> <<"HWCAWT", Blank, "XWDS", Blank, monthName[1]>>,
                       amount |-> amount,
                       month |-> NumValue[month],
                       year |-> parseInt(year).v]]
        ELSE [kind |-> "transaction", counted |-> TRUE, period |-> period,
              out |-> [item |-> item,
                       amount |-> amount,
                       type |-> type,
                       category |-> importCategory(m, item),
                       month |-> NumValue[month],
                       year |-> parseInt(year).v,
                       paymentMethod |-> IF isCheckPayment THEN "check" ELSE "cash"]]

\* one data row: "skip" (no output), "fail" (abort the batch) or the parsed
\* candidate; month and year are the row's contribution to the period sets
parseRow(m, values) ==
    LET year == Trim(values[1])
        monthName == Trim(values[2])
        item == StripImportQuotes(Trim(values[3]))
        debit == Trim(values[4])
        credit == Trim(values[5])
        isCheckItem == item = CheckMarker
        knownMonth == Len(monthName) = 1 /\ monthName[1] \in DOMAIN monthMap
        month == monthMap[monthName[1]]
        useCredit == credit # <<>>
        useDebit == ~useCredit /\ debit # <<>>
        parsed == IF useCredit THEN parseFloat(credit) ELSE parseFloat(debit)
        amount == IF useCredit THEN parsed.v ELSE -Abs(parsed.v)
        type == IF useCredit THEN "income" ELSE "expense"
        isCheckPayment == Includes(item, CheckWord)
        period == [month |-> month, year |-> year]
    IN  IF Len(values) < 5 THEN [kind |-> "skip", counted |-> FALSE]
        ELSE IF ~knownMonth THEN [kind |-> "fail", error |-> "monthName"]
        ELSE IF ~useCredit /\ ~useDebit
        THEN [kind |-> "skip", counted |-> TRUE, period |-> period]
        ELSE IF parsed.nan THEN [kind |-> "fail", error |-> "amount"]
        ELSE IF isCheckItem
        THEN [kind |-> "checkItem", counted |-> TRUE, period |-> period,
              out |-> [item |-> <<"HWCAWT", Blank, "XWDS", Blank, monthName[1]>>,
                       amount |-> amount,
                       month |-> NumValue[month],
                       year |-> parseInt(year).v]]
        ELSE [kind |-> "transaction", counted |-> TRUE, period |-> period,
              out |-> [item |-> item,
                       amount |-> amount,
                       type |-> type,
                       category |-> importCategory(m, item),
                       month |-> NumValue[month],
                       year |-> parseInt(year).v,
                       paymentMethod |-> IF isCheckPayment THEN "check" ELSE "cash"]]

\* addRow, but a skipped row adds nothing to the months and years seen
addRowCountsOutputOnly(acc, r) ==
    IF r.kind = "fail" THEN [acc EXCEPT !.error = r.error]
    ELSE IF r.kind = "transaction"
    THEN [acc EXCEPT !.months = @ \cup {r.period.month},
                     !.years = @ \cup {r.period.year},
                     !.transactions = Append(@, r.out)]
    ELSE IF r.kind = "checkItem"
    THEN [acc EXCEPT !.months = @ \cup {r.period.month},
                     !.years = @ \cup {r.period.year},
                     !.checkItems = Append(@, r.out)]
    ELSE acc

\* one pass of the loop over the data rows, r the parsed row: acc collects
\* transactions, checkItems, the months and years seen, and the error that
\* ends the loop
addRow(acc, r) ==
    IF r.kind = "fail" THEN [acc EXCEPT !.error = r.error]
    ELSE IF r.kind = "transaction"
    THEN [acc EXCEPT !.months = @ \cup {r.period.month},
                     !.years = @ \cup {r.period.year},
                     !.transactions = Append(@, r.out)]
    ELSE IF r.kind = "checkItem"
    THEN [acc EXCEPT !.months = @ \cup {r.period.month},
                     !.years = @ \cup {r.period.year},
                     !.checkItems = Append(@, r.out)]
    ELSE IF r.counted
    THEN [acc EXCEPT !.months = @ \cup {r.period.month},
                     !.years = @ \cup {r.period.year}]
    ELSE acc

RECURSIVE parseRows(_, _, _)
\* the loop over the data rows
parseRows(m, rows, acc) ==
    IF rows = <<>> \/ acc.error # "" THEN acc
    ELSE parseRows(m, Tail(rows), addRow(acc, parseRow(m, Head(rows))))

NoRows ==
    [transactions |-> <<>>, checkItems |-> <<>>, months |-> {}, years |-> {},
     error |-> ""]

Failure(reason) ==
    [success |-> FALSE, error |-> reason, transactions |-> <<>>, checkItems |-> <<>>]

TheOne(S) == CHOOSE x \in S : TRUE

\* the validations after the loop, acc what the loop collected
validatePeriod(acc, selectedMonth, year) ==
    IF acc.error # "" THEN Failure(acc.error)
    ELSE IF Cardinality(acc.months) > 1 THEN Failure("multiMonth")
    ELSE IF acc.months = {} \/ TheOne(acc.months) # selectedMonth
    THEN Failure("monthMismatch")
    ELSE IF Cardinality(acc.years) > 1 THEN Failure("multiYear")
    ELSE IF parseInt(TheOne(acc.years)).nan \/ parseInt(TheOne(acc.years)).v # year
    THEN Failure("yearMismatch")
    ELSE [success |-> TRUE, error |-> "", transactions |-> acc.transactions,
          checkItems |-> acc.checkItems]

\* csv is [header, rows]; selectedMonth is the value of dataEntryMonthSelect
parseAndValidateCSV(m, csv, selectedMonth, year) ==
    IF selectedMonth = "all" THEN Failure("all")
    ELSE IF Len(csv.rows) < 1 THEN Failure("empty")
    ELSE IF ~hasCorrectHeaders(csv.header) THEN Failure("header")
    ELSE validatePeriod(parseRows(m, csv.rows, NoRows), selectedMonth, year)

-----------------------------------------------------------------------------
(* Deduplication and merge into the live store *)

\* 0.01, in half agorot
AmountTolerance == 2

\* isDuplicateTransaction, but the amounts have to be farther apart than the tolerance
isDuplicateTransactionFarAmount(txs, newTransaction) ==
    \E i \in 1..Len(txs) :
        /\ txs[i].item = newTransaction.item
        /\ txs[i].month = newTransaction.month
        /\ txs[i].year = newTransaction.year
        /\ txs[i].type = newTransaction.type
        /\ Abs(txs[i].amount - newTransaction.amount) > AmountTolerance

\* isDuplicateTransaction, but the amounts have to be equal
isDuplicateTransactionExactAmount(txs, newTransaction) ==
    \E i \in 1..Len(txs) :
        /\ txs[i].item = newTransaction.item
        /\ txs[i].month = newTransaction.month
        /\ txs[i].year = newTransaction.year
        /\ txs[i].type = newTransaction.type
        /\ txs[i].amount = newTransaction.amount

isDuplicateTransaction(txs, newTransaction) ==
    \E i \in 1..Len(txs) :
        /\ txs[i].item = newTransaction.item
        /\ txs[i].month = newTransaction.month
        /\ txs[i].year = newTransaction.year
        /\ txs[i].type = newTransaction.type
        /\ Abs(txs[i].amount - newTransaction.amount) < AmountTolerance

isDuplicateCheckItem(items, newCheckItem) ==
    \E i \in 1..Len(items) :
        /\ items[i].item = newCheckItem.item
        /\ items[i].month = newCheckItem.month
        /\ items[i].year = newCheckItem.year
        /\ Abs(items[i].amount - newCheckItem.amount) < AmountTolerance

\* a stored transaction: the candidate with its id; origin is a history
\* field (the path that created the transaction, kept when it is edited)
Stored(c, id, origin) ==
    [id |-> id, item |-> c.item, amount |-> c.amount, type |-> c.type,
     category |-> c.category, month |-> c.month, year |-> c.year,
     paymentMethod |-> c.paymentMethod, origin |-> origin]

StoredCheck(c, id) ==
    [id |-> id, item |-> c.item, amount |-> c.amount, month |-> c.month,
     year |-> c.year]

RECURSIVE mergeTransactions(_, _)
\* result.transactions.forEach of importCSV; acc is [store, nextId, added,
\* skipped, log]; log records for every candidate whether it was skipped and
\* how long the store was when it was checked
mergeTransactions(acc, cands) ==
    IF cands = <<>> THEN acc
    ELSE LET trans == Head(cands)
             dup == isDuplicateTransaction(acc.store, trans)
             entry == [cand |-> trans, skipped |-> dup, before |-> Len(acc.store)]
         IN  IF dup
             THEN mergeTransactions(
                      [acc EXCEPT !.skipped = @ + 1, !.log = Append(@, entry)],
                      Tail(cands))
             ELSE mergeTransactions(
                      [acc EXCEPT !.store = Append(@, Stored(trans, acc.nextId, "import")),
                                  !.nextId = @ + 1,
                                  !.added = @ + 1,
                                  !.log = Append(@, entry)],
                      Tail(cands))

RECURSIVE mergeCheckItems(_, _)
mergeCheckItems(acc, cands) ==
    IF cands = <<>> THEN acc
    ELSE LET checkItem == Head(cands)
         IN  IF isDuplicateCheckItem(acc.store, checkItem)
             THEN mergeCheckItems([acc EXCEPT !.skipped = @ + 1], Tail(cands))
             ELSE mergeCheckItems(
                      [acc EXCEPT !.store = Append(@, StoredCheck(checkItem, acc.nextId)),
                                  !.nextId = @ + 1,
                                  !.added = @ + 1],
                      Tail(cands))

MergeStart(store, id) ==
    [store |-> store, nextId |-> id, added |-> 0, skipped |-> 0, log |-> <<>>]

-----------------------------------------------------------------------------
(* Session state *)

\* the fields of the session that handlers rewrite, as one record
Core ==
    [transactions |-> transactions,
     importedCheckItems |-> importedCheckItems,
     mappings |-> mappings,
     incomeItems |-> incomeItems,
     categories |-> categories,
     openingBalances |-> openingBalances,
     manualOpeningBalances |-> manualOpeningBalances,
     currentYear |-> currentYear,
     lastSelectedYear |-> lastSelectedYear]

\* JSON text of a month number (a numeral) and of a month kept as a string
\* (the text between double quotes)
JsonNumber(n) == <<CHOOSE s \in {"1", "2", "3", "4", "5", "6", "7"} : NumValue[s] = n>>
JsonString(text) == <<DQ>> \o text \o <<DQ>>
IsJsonString(json) == json # <<>> /\ Head(json) = DQ
JsonText(json) == SubSeq(json, 2, Len(json) - 1)

\* JSON.stringify and JSON.parse of the transactions: in the document the
\* month is JSON text, every other field is as in memory
stringifyTransactions(txs) ==
    [i \in 1..Len(txs) |-> [txs[i] EXCEPT !.month = JsonNumber(@)]]
parseTransactions(json) ==
    [i \in 1..Len(json) |-> [json[i] EXCEPT !.month = NumValue[@[1]]]]

\* Array.from(this.mappings.entries()): in the document the value of a
\* mapping is an object; documents of early versions hold the category alone,
\* [string |-> category]
stringifyMappings(m) ==
    [i \in 1..Len(m) |->
        [item |-> m[i].item,
         value |-> [category |-> m[i].category,
                    includeInMonthlyExpenses |-> m[i].includeInMonthlyExpenses]]]

RECURSIVE parseMappings(_, _)
\* new Map(data.mappings) of importData, the values being objects
parseMappings(m, json) ==
    IF json = <<>> THEN m
    ELSE parseMappings(MapSet(m, Head(json).item, Head(json).value.category,
                              Head(json).value.includeInMonthlyExpenses),
                       Tail(json))

\* the document saveData writes to localStorage
saveData(st) ==
    [transactions |-> stringifyTransactions(st.transactions),
     importedCheckItems |-> st.importedCheckItems,
     mappings |-> stringifyMappings(st.mappings),
     incomeItems |-> st.incomeItems,
     categories |-> st.categories,
     openingBalances |-> st.openingBalances,
     manualOpeningBalances |-> st.manualOpeningBalances,
     lastSelectedYear |-> st.lastSelectedYear]

\* the document exportData writes to the file it offers for download
exportData(st) ==
    [transactions |-> stringifyTransactions(st.transactions),
     mappings |-> stringifyMappings(st.mappings),
     incomeItems |-> st.incomeItems,
     categories |-> st.categories,
     openingBalances |-> st.openingBalances,
     lastSelectedYear |-> st.lastSelectedYear]

\* the defaults loadData adds to a saved document (excerpts of its lists)
loadDefaultMappings ==
    << [item |-> Salary, category |-> SalaryCategory, includeInMonthlyExpenses |-> FALSE],
       [item |-> Electric, category |-> Taxes, includeInMonthlyExpenses |-> FALSE] >>

loadDefaultIncomeItems == <<Salary, BituachLeumi>>

loadDefaultCategories == <<NationalInsurance, Taxes, Misc>>

\* the fixes of loadData to one transaction of the document: a missing year,
\* a month kept as a string, quote characters in the item, the category of
\* the national insurance items; updated tells whether one of them applied
migrateTransactionAlwaysUpdated(d, year) ==
    LET itemName == Trim(d.item)
        itemNameClean == StripQuotes(itemName)
        fixCategory == /\ \/ itemNameClean = BituachLeumi
                          \/ itemNameClean = BituachLeumiG
                          \/ StartsWith(itemNameClean, BituachLeumiG)
                       /\ d.category # NationalInsurance
    IN  [t |-> [d EXCEPT
                  !.year = IF @ = 0 THEN year ELSE @,
                  !.month = IF IsJsonString(@) THEN parseInt(JsonText(@)).v
                            ELSE NumValue[@[1]],
                  !.item = IF itemName # itemNameClean THEN itemNameClean ELSE @,
                  !.category = IF fixCategory THEN NationalInsurance ELSE @],
         updated |-> TRUE]

migrateTransaction(d, year) ==
    LET itemName == Trim(d.item)
        itemNameClean == StripQuotes(itemName)
        fixCategory == /\ \/ itemNameClean = BituachLeumi
                          \/ itemNameClean = BituachLeumiG
                          \/ StartsWith(itemNameClean, BituachLeumiG)
                       /\ d.category # NationalInsurance
    IN  [t |-> [d EXCEPT
                  !.year = IF @ = 0 THEN year ELSE @,
                  !.month = IF IsJsonString(@) THEN parseInt(JsonText(@)).v
                            ELSE NumValue[@[1]],
                  !.item = IF itemName # itemNameClean THEN itemNameClean ELSE @,
                  !.category = IF fixCategory THEN NationalInsurance ELSE @],
         updated |-> \/ d.year = 0
                     \/ IsJsonString(d.month)
                     \/ itemName # itemNameClean
                     \/ fixCategory]

\* the type fix of loadData for deposit items: a withdrawal, redemption or
\* interest is an income of positive amount, a placement an expense of
\* negative amount
fixDepositType(t) ==
    LET itemLower == toLowerCase(t.item)
        deposit == Includes(itemLower, Deposit1) \/ Includes(itemLower, Deposit2)
    IN  IF deposit /\ (\/ Includes(itemLower, Withdrawal)
                       \/ Includes(itemLower, Redemption)
                       \/ Includes(itemLower, Interest))
        THEN IF t.type # "income"
             THEN [t |-> [t EXCEPT !.type = "income", !.amount = Abs(@)], fixed |-> TRUE]
             ELSE [t |-> t, fixed |-> FALSE]
        ELSE IF deposit /\ Includes(itemLower, Placement)
        THEN IF t.type # "expense"
             THEN [t |-> [t EXCEPT !.type = "expense", !.amount = -Abs(@)], fixed |-> TRUE]
             ELSE [t |-> t, fixed |-> FALSE]
        ELSE [t |-> t, fixed |-> FALSE]

\* the transactions of the document after both passes of loadData
loadTransactions(json, year) ==
    [ts |-> [i \in 1..Len(json) |-> fixDepositType(migrateTransaction(json[i], year).t).t],
     updated |-> \E i \in 1..Len(json) :
                    \/ migrateTransaction(json[i], year).updated
                    \/ fixDepositType(migrateTransaction(json[i], year).t).fixed]

\* one mapping of the document read into the table: a category alone (early
\* versions) becomes an object included in the monthly expenses
loadMapping(acc, item, value) ==
    IF "string" \in DOMAIN value
    THEN [m |-> MapSet(acc.m, item, value.string, TRUE), updated |-> TRUE]
    ELSE [m |-> MapSet(acc.m, item,
                       OrUncategorized(IF "category" \in DOMAIN value
                                       THEN value.category ELSE ""),
                       IF "includeInMonthlyExpenses" \in DOMAIN value
                       THEN value.includeInMonthlyExpenses ELSE TRUE),
          updated |-> acc.updated]

RECURSIVE loadMappings(_, _)
\* data.mappings.forEach of loadData; acc is [m, updated]
loadMappings(acc, json) ==
    IF json = <<>> THEN acc
    ELSE loadMappings(loadMapping(acc, Head(json).item, Head(json).value), Tail(json))

\* the merge of the default mappings, every default written over the table
mergeDefaultMappingOverwriting(acc, default) ==
    [m |-> MapSet(acc.m, default.item, default.category,
                  default.includeInMonthlyExpenses),
     updated |-> acc.updated \/ ~MapHas(acc.m, default.item)]

\* one default mapping is added when the table has no mapping of its item
mergeDefaultMapping(acc, default) ==
    IF MapHas(acc.m, default.item) THEN acc
    ELSE [m |-> Append(acc.m, default), updated |-> TRUE]

RECURSIVE mergeDefaultMappings(_, _)
mergeDefaultMappings(acc, defaults) ==
    IF defaults = <<>> THEN acc
    ELSE mergeDefaultMappings(mergeDefaultMapping(acc, Head(defaults)), Tail(defaults))

RECURSIVE addMissing(_, _)
\* the items of a list added, in order, to a list that lacks them; acc is
\* [s, updated]
addMissing(acc, items) ==
    IF items = <<>> THEN acc
    ELSE addMissing(IF \E i \in 1..Len(acc.s) : acc.s[i] = Head(items) THEN acc
                    ELSE [s |-> Append(acc.s, Head(items)), updated |-> TRUE],
                    Tail(items))

NoItems == [s |-> <<>>, updated |-> FALSE]
\* new Set(list), in insertion order
SetFrom(list) == addMissing(NoItems, list).s

\* the end of loadData, given the parts read from the document
loadEnd(data, st, year, ts, maps, income, cats) ==
    [st |-> [transactions |-> ts.ts,
             importedCheckItems |-> IF "importedCheckItems" \in DOMAIN data
                                    THEN data.importedCheckItems ELSE <<>>,
             mappings |-> maps.m,
             incomeItems |-> income.s,
             categories |-> cats.s,
             openingBalances |-> IF "openingBalances" \in DOMAIN data
                                 THEN data.openingBalances ELSE st.openingBalances,
             manualOpeningBalances |-> IF "manualOpeningBalances" \in DOMAIN data
                                       THEN data.manualOpeningBalances
                                       ELSE st.manualOpeningBalances,
             currentYear |-> year,
             lastSelectedYear |-> IF "lastSelectedYear" \in DOMAIN data
                                     /\ data.lastSelectedYear # 0
                                  THEN data.lastSelectedYear ELSE st.lastSelectedYear],
     dataUpdated |-> ts.updated \/ maps.updated \/ income.updated \/ cats.updated]

\* loadData: st is the session initialize() has made so far, data the
\* document of localStorage
loadYear(data, st, year) ==
    loadEnd(data, st, year,
            loadTransactions(IF "transactions" \in DOMAIN data
                             THEN data.transactions ELSE <<>>, year),
            IF "mappings" \in DOMAIN data
            THEN mergeDefaultMappings(
                     loadMappings([m |-> <<>>, updated |-> FALSE], data.mappings),
                     loadDefaultMappings)
            ELSE [m |-> defaultMappings, updated |-> FALSE],
            IF "incomeItems" \in DOMAIN data
            THEN addMissing([s |-> SetFrom(data.incomeItems), updated |-> FALSE],
                            loadDefaultIncomeItems)
            ELSE [s |-> loadDefaultIncomeItems, updated |-> FALSE],
            IF "categories" \in DOMAIN data
            THEN addMissing([s |-> data.categories, updated |-> FALSE],
                            loadDefaultCategories)
            ELSE [s |-> defaultCategories, updated |-> FALSE])

loadData(data, st) ==
    loadYear(data, st,
             IF "lastSelectedYear" \in DOMAIN data /\ data.lastSelectedYear # 0
             THEN data.lastSelectedYear ELSE st.currentYear)

NoView == [ran |-> FALSE, month |-> 0, openingBalance |-> 0, closingBalance |-> 0]

\* updateMonthlyView: updateBalanceSummary for the month, which shows the
\* opening balance and, as closing balance, the opening balance plus the net
\* change of the month; the other summaries only render
updateMonthlyView(st, month) ==
    LET r == updateBalanceSummary(st.transactions, st.openingBalances,
                                  st.manualOpeningBalances, st.currentYear, month)
        netChange == SumAmounts(st.transactions, "income", month, st.currentYear)
                     - SumAmounts(st.transactions, "expense", month, st.currentYear)
                     + SumAmounts(st.transactions, "transfer", month, st.currentYear)
    IN  [st |-> [st EXCEPT !.openingBalances = r.openingBalances],
         saved |-> r.saved,
         from |-> st,
         view |-> [ran |-> TRUE, month |-> month, openingBalance |-> r.openingBalance,
                   closingBalance |-> r.openingBalance + netChange]]

NoRefresh(st) == [st |-> st, saved |-> FALSE, from |-> st, view |-> NoView]

updateDisplay(st, tab, month) ==
    IF tab = "monthly" THEN updateMonthlyView(st, month) ELSE NoRefresh(st)

NoCsv == [header |-> <<>>, rows |-> <<>>]

\* the record of the last handler that ran (history)
Event(op, ok) ==
    [op |-> op, ok |-> ok, target |-> <<"", 0>>,
     result |-> Failure(""), added |-> 0, skipped |-> 0, checksAdded |-> 0,
     log |-> <<>>, repeat |-> FALSE, month |-> 0, item |-> <<>>, view |-> NoView,
     category |-> "", type |-> "", year |-> 0, closing |-> 0, newer |-> FALSE,
     silent |-> FALSE, dropped |-> 0, known |-> FALSE]

-----------------------------------------------------------------------------
(* Dropbox synchronisation (dropbox-sync.js) *)

\* the DropboxSync object of a session with no access token
NoSync ==
    [accessToken |-> FALSE, autoSyncEnabled |-> FALSE, biDirectionalSyncEnabled |-> FALSE,
     syncInProgress |-> FALSE, lastRemoteModified |-> 0]

\* the file of the Dropbox folder: none yet
NoFile == [data |-> <<>>, server_modified |-> 0]

\* a request of fetch() on its way: silent is the argument of the call that
\* sent it, served tells whether Dropbox has handled it, ok what it answers,
\* body is the document sent or returned
Request(kind, silent, body) ==
    [kind |-> kind, silent |-> silent, served |-> FALSE, ok |-> FALSE, body |-> body,
     server_modified |-> 0]

Remove(seq, i) == SubSeq(seq, 1, i - 1) \o SubSeq(seq, i + 1, Len(seq))

Transfers(reqs) == {i \in 1..Len(reqs) : reqs[i].kind \in {"upload", "download"}}
Polls(reqs) == {i \in 1..Len(reqs) : reqs[i].kind = "metadata"}

\* the document uploadToDropbox collects: the income items are not in it
uploadDocument(st) ==
    [transactions |-> stringifyTransactions(st.transactions),
     importedCheckItems |-> st.importedCheckItems,
     mappings |-> stringifyMappings(st.mappings),
     categories |-> st.categories,
     openingBalances |-> st.openingBalances,
     manualOpeningBalances |-> st.manualOpeningBalances,
     lastSelectedYear |-> st.lastSelectedYear,
     currentYear |-> st.currentYear]

\* uploadToDropbox ignoring a transfer in progress
uploadToDropboxUnguarded(sync, reqs, st, silent) ==
    IF sync.accessToken
    THEN [sync |-> [sync EXCEPT !.syncInProgress = TRUE],
          requests |-> Append(reqs, Request("upload", silent, <<uploadDocument(st)>>)),
          started |-> TRUE]
    ELSE [sync |-> sync, requests |-> reqs, started |-> FALSE]

\* uploadToDropbox up to its fetch: refused with no token and while a
\* transfer is in progress, else the document of the session is sent
uploadToDropbox(sync, reqs, st, silent) ==
    IF sync.accessToken /\ ~sync.syncInProgress
    THEN [sync |-> [sync EXCEPT !.syncInProgress = TRUE],
          requests |-> Append(reqs, Request("upload", silent, <<uploadDocument(st)>>)),
          started |-> TRUE]
    ELSE [sync |-> sync, requests |-> reqs, started |-> FALSE]

\* downloadFromDropbox up to its fetch, the user confirming
downloadFromDropbox(sync, reqs, silent) ==
    IF sync.accessToken /\ ~sync.syncInProgress
    THEN [sync |-> [sync EXCEPT !.syncInProgress = TRUE],
          requests |-> Append(reqs, Request("download", silent, <<>>)),
          started |-> TRUE]
    ELSE [sync |-> sync, requests |-> reqs, started |-> FALSE]

\* autoSync(), called by saveData
autoSync(sync, reqs, st) ==
    IF sync.autoSyncEnabled /\ sync.accessToken /\ ~sync.syncInProgress
    THEN uploadToDropbox(sync, reqs, st, TRUE)
    ELSE [sync |-> sync, requests |-> reqs, started |-> FALSE]

\* the session after downloadFromDropbox has put the document in it
restore(st, data) ==
    LET has(field) == field \in DOMAIN data
    IN  [st EXCEPT
           !.transactions = IF has("transactions")
                            THEN parseTransactions(data.transactions) ELSE <<>>,
           !.importedCheckItems = IF has("importedCheckItems")
                                  THEN data.importedCheckItems ELSE <<>>,
           !.mappings = IF has("mappings") THEN parseMappings(<<>>, data.mappings)
                        ELSE <<>>,
           !.categories = IF has("categories") /\ data.categories # <<>>
                          THEN data.categories ELSE @,
           !.openingBalances = IF has("openingBalances") THEN data.openingBalances
                               ELSE [k \in {} |-> 0],
           !.manualOpeningBalances = IF has("manualOpeningBalances")
                                     THEN data.manualOpeningBalances ELSE {},
           !.lastSelectedYear = IF has("lastSelectedYear") /\ data.lastSelectedYear # 0
                                THEN data.lastSelectedYear ELSE @,
           !.currentYear = IF has("currentYear") /\ data.currentYear # 0
                           THEN data.currentYear ELSE @]

\* what a handler leaves of the session, of localStorage and of the history:
\* shown is the outcome of its display refresh, saves tells whether the
\* handler itself called saveData
Leave(shown, saves, event) ==
    /\ transactions' = shown.st.transactions
    /\ importedCheckItems' = shown.st.importedCheckItems
    /\ mappings' = shown.st.mappings
    /\ incomeItems' = shown.st.incomeItems
    /\ categories' = shown.st.categories
    /\ openingBalances' = shown.st.openingBalances
    /\ manualOpeningBalances' = shown.st.manualOpeningBalances
    /\ currentYear' = shown.st.currentYear
    /\ lastSelectedYear' = shown.st.lastSelectedYear
    /\ budgetData' = IF saves \/ shown.saved THEN <<saveData(shown.st)>> ELSE budgetData
    /\ ev' = [event EXCEPT !.view = shown.view]
    /\ exportFile' = exportFile

\* the autoSync of the saves of a handler: the handler's own saveData comes
\* before its display refresh, whose save finds the transfer in progress
Synced(shown, saves, sync, reqs) ==
    IF saves \/ shown.saved
    THEN autoSync(sync, reqs, IF saves THEN shown.from ELSE shown.st)
    ELSE [sync |-> sync, requests |-> reqs, started |-> FALSE]

\* the end of a handler of the budget system
Finish(shown, saves, event) ==
    /\ Leave(shown, saves, event)
    /\ dropboxSync' = Synced(shown, saves, dropboxSync, requests).sync
    /\ requests' = Synced(shown, saves, dropboxSync, requests).requests
    /\ dropboxFile' = dropboxFile

\* String(m).padStart(2, '0'), the option values of the month selectors
Pad2(m) ==
    CHOOSE s \in {"01", "02", "03", "04", "05", "06", "07", "08", "09", "10", "11", "12"} :
        NumValue[s] = m

EmptyMap == [k \in {} |-> 0]

Init ==
    /\ transactions = <<>>
    /\ importedCheckItems = <<>>
    /\ mappings = defaultMappings
    /\ incomeItems = defaultIncomeItems
    /\ categories = defaultCategories
    /\ openingBalances = EmptyMap
    /\ manualOpeningBalances = {}
    /\ currentYear = 2025
    /\ lastSelectedYear = 0
    /\ currentTab = "data-entry"
    /\ pendingTab = FALSE
    /\ monthSelect \in Months
    /\ dataEntryMonthSelect = Pad2(monthSelect)
    /\ editId = 0
    /\ editMonth = 0
    /\ budgetData = <<>>
    /\ pendingSave = FALSE
    /\ csvFile = NoCsv
    /\ nextId = 1
    /\ ev = Event("init", TRUE)
    /\ dropboxSync = NoSync
    /\ dropboxFile = NoFile
    /\ requests = <<>>
    /\ exportFile = <<>>

-----------------------------------------------------------------------------
(* Handlers *)

\* the end of reader.onload, given the parse result and the two merges: an
\* accepted batch is saved and shown, a rejected one only reported
importEnd(csv, result, mt, mc) ==
    /\ mc.nextId - 1 <= MaxId
    /\ csvFile' = csv
    /\ IF result.success
       THEN /\ Finish(updateDisplay([Core EXCEPT !.transactions = mt.store,
                                                 !.importedCheckItems = mc.store],
                                    currentTab, monthSelect),
                      TRUE,
                      [Event("importCSV", TRUE) EXCEPT
                          !.target = <<dataEntryMonthSelect, currentYear>>,
                          !.result = result,
                          !.added = mt.added,
                          !.skipped = mt.skipped,
                          !.checksAdded = mc.added,
                          !.log = mt.log,
                          !.repeat = /\ ev.op = "importCSV"
                                     /\ csvFile = csv
                                     /\ ev.target = <<dataEntryMonthSelect, currentYear>>])
            /\ nextId' = mc.nextId
       ELSE /\ Finish(NoRefresh(Core), FALSE,
                      [Event("importCSV", FALSE) EXCEPT
                          !.target = <<dataEntryMonthSelect, currentYear>>,
                          !.result = result,
                          !.repeat = /\ ev.op = "importCSV"
                                     /\ csvFile = csv
                                     /\ ev.target = <<dataEntryMonthSelect, currentYear>>])
            /\ nextId' = nextId
    /\ UNCHANGED <<pendingSave, currentTab, pendingTab, monthSelect, dataEntryMonthSelect,
                   editId, editMonth>>

\* the two forEach loops of reader.onload over the parse result
importMerge(csv, result, mt) ==
    importEnd(csv, result, mt,
              mergeCheckItems(MergeStart(importedCheckItems, mt.nextId), result.checkItems))

importParsed(csv, result) ==
    importMerge(csv, result,
                mergeTransactions(MergeStart(transactions, nextId), result.transactions))

\* importCSV for a CSV file (reader.onload): parse, merge, save, refresh
importCSV(csv) ==
    importParsed(csv, parseAndValidateCSV(mappings, csv, dataEntryMonthSelect, currentYear))

\* addTransaction, the submit handler of the transaction form; form is
\* [item, amount, type, isCheck, isSpecialCheckItem]
addTransaction(form) ==
    LET isEditing == editId # 0
        selectedMonth == IF isEditing THEN editMonth
                         ELSE IF dataEntryMonthSelect = "all" THEN 0
                         ELSE NumValue[dataEntryMonthSelect]
        item == Trim(form.item)
        amount == parseFloat(form.amount)
        signed == IF form.type = "expense" THEN -Abs(amount.v) ELSE Abs(amount.v)
        transactionData ==
            [item |-> item, amount |-> signed, type |-> form.type,
             category |-> getCategoryForItem(mappings, item),
             month |-> selectedMonth, year |-> currentYear,
             paymentMethod |-> IF form.isCheck THEN "check" ELSE "cash"]
        checkItem ==
            [item |-> item, amount |-> -Abs(amount.v), month |-> selectedMonth,
             year |-> currentYear]
        found == {i \in 1..Len(transactions) : transactions[i].id = editId}
        transactionIndex == CHOOSE i \in found : TRUE
        event == Event("addTransaction", TRUE)
    IN  /\ selectedMonth # 0
        /\ item # <<>>
        /\ ~amount.nan
        /\ IF form.isSpecialCheckItem
           THEN /\ nextId <= MaxId
                /\ Finish(updateDisplay(
                              [Core EXCEPT !.importedCheckItems =
                                               Append(@, StoredCheck(checkItem, nextId))],
                              currentTab, monthSelect),
                          TRUE, [event EXCEPT !.op = "addSpecialCheckItem"])
                /\ nextId' = nextId + 1
           ELSE IF isEditing
           THEN /\ found # {}
                /\ Finish(updateDisplay(
                              [Core EXCEPT !.transactions[transactionIndex] =
                                   Stored(transactionData, editId, @.origin)],
                              currentTab, monthSelect),
                          TRUE, [event EXCEPT !.op = "editTransaction"])
                /\ nextId' = nextId
           ELSE /\ nextId <= MaxId
                /\ Finish(updateDisplay(
                              [Core EXCEPT !.transactions =
                                   Append(@, Stored(transactionData, nextId, "entry"))],
                              currentTab, monthSelect),
                          TRUE, event)
                /\ nextId' = nextId + 1
        \* hideTransactionForm drops editId; editMonth is read only together
        \* with an editId and is dropped with it here
        /\ editId' = 0
        /\ editMonth' = 0
        /\ UNCHANGED <<pendingSave, csvFile, currentTab, pendingTab, monthSelect, dataEntryMonthSelect>>

\* editTransaction(id): showTransactionForm(transaction) remembers the id and
\* the original month in the form
editTransaction(id) ==
    /\ \E i \in 1..Len(transactions) :
           /\ transactions[i].id = id
           /\ editId' = id
           /\ editMonth' = transactions[i].month
    /\ Finish(NoRefresh(Core), FALSE, Event("showTransactionForm", TRUE))
    /\ UNCHANGED <<pendingSave, csvFile, currentTab, pendingTab, monthSelect, dataEntryMonthSelect, nextId>>

\* showTransactionForm() for a new transaction
showTransactionForm ==
    /\ editId # 0 \/ editMonth # 0
    /\ editId' = 0
    /\ editMonth' = 0
    /\ Finish(NoRefresh(Core), FALSE, Event("showTransactionForm", TRUE))
    /\ UNCHANGED <<pendingSave, csvFile, currentTab, pendingTab, monthSelect, dataEntryMonthSelect, nextId>>

deleteTransaction(id) ==
    /\ \E i \in 1..Len(transactions) : transactions[i].id = id
    /\ Finish(updateDisplay(
                  [Core EXCEPT !.transactions = SelectSeq(@, LAMBDA t : t.id # id)],
                  currentTab, monthSelect),
              TRUE, Event("deleteTransaction", TRUE))
    /\ UNCHANGED <<pendingSave, csvFile, currentTab, pendingTab, monthSelect, dataEntryMonthSelect,
                   editId, editMonth, nextId>>

deleteImportedCheckItem(itemId) ==
    /\ \E i \in 1..Len(importedCheckItems) : importedCheckItems[i].id = itemId
    /\ Finish(NoRefresh([Core EXCEPT !.importedCheckItems =
                                         SelectSeq(@, LAMBDA c : c.id # itemId)]),
              TRUE, Event("deleteImportedCheckItem", TRUE))
    /\ UNCHANGED <<pendingSave, csvFile, currentTab, pendingTab, monthSelect, dataEntryMonthSelect,
                   editId, editMonth, nextId>>

\* the save button of editImportedCheckItem(itemId)
editImportedCheckItem(itemId, itemName) ==
    /\ Trim(itemName) # <<>>
    /\ \E i \in 1..Len(importedCheckItems) :
           /\ importedCheckItems[i].id = itemId
           /\ Finish(NoRefresh([Core EXCEPT !.importedCheckItems[i].item = Trim(itemName)]),
                     TRUE, Event("editImportedCheckItem", TRUE))
    /\ UNCHANGED <<pendingSave, csvFile, currentTab, pendingTab, monthSelect, dataEntryMonthSelect,
                   editId, editMonth, nextId>>

addMapping(item, category, includeInMonthlyExpenses) ==
    /\ Trim(item) # <<>>
    /\ category # ""
    /\ Finish(NoRefresh([Core EXCEPT !.mappings =
                             MapSet(@, Trim(item), category, includeInMonthlyExpenses)]),
              TRUE, Event("addMapping", TRUE))
    /\ UNCHANGED <<pendingSave, csvFile, currentTab, pendingTab, monthSelect, dataEntryMonthSelect,
                   editId, editMonth, nextId>>

countTransactionsUsingItem(txs, item) ==
    Cardinality({i \in 1..Len(txs) : txs[i].item = item})

\* deleteMappingBlocked, but one use of the item does not block
deleteMappingBlockedFromTwo(txs, item) == countTransactionsUsingItem(txs, item) > 1

\* the referential-integrity check of deleteMapping
deleteMappingBlocked(txs, item) == countTransactionsUsingItem(txs, item) > 0

deleteMapping(item) ==
    /\ MapHas(mappings, item)
    /\ IF deleteMappingBlocked(transactions, item)
       THEN Finish(NoRefresh(Core), FALSE,
                   [Event("deleteMapping", FALSE) EXCEPT !.item = item])
       ELSE Finish(NoRefresh([Core EXCEPT !.mappings = MapDelete(@, item)]), TRUE,
                   [Event("deleteMapping", TRUE) EXCEPT !.item = item])
    /\ UNCHANGED <<pendingSave, csvFile, currentTab, pendingTab, monthSelect, dataEntryMonthSelect,
                   editId, editMonth, nextId>>

\* the save button of showOpeningBalanceModal(month)
saveOpeningBalance(month, input) ==
    LET parsed == parseFloat(input)
        newBalance == IF parsed.nan THEN 0 ELSE parsed.v
        key == Key(currentYear, month)
        st == [Core EXCEPT !.openingBalances = (key :> newBalance) @@ @,
                           !.manualOpeningBalances = @ \cup {key}]
    IN  /\ Finish(updateMonthlyView(st, month), TRUE,
                  [Event("saveOpeningBalance", TRUE) EXCEPT !.month = month])
        /\ UNCHANGED <<pendingSave, csvFile, currentTab, pendingTab, monthSelect, dataEntryMonthSelect,
                       editId, editMonth, nextId>>

\* change of monthSelect: updateMonthlyView
selectMonth(month) ==
    /\ monthSelect' = month
    /\ Finish(updateMonthlyView(Core, month), FALSE, Event("selectMonth", TRUE))
    /\ UNCHANGED <<pendingSave, csvFile, currentTab, pendingTab, dataEntryMonthSelect, editId, editMonth, nextId>>

\* change of dataEntryMonthSelect; a specific month is remembered and saved
selectDataEntryMonth(value) ==
    /\ value # dataEntryMonthSelect
    /\ dataEntryMonthSelect' = value
    /\ Finish(NoRefresh(Core), value # "all", Event("selectDataEntryMonth", TRUE))
    /\ UNCHANGED <<pendingSave, csvFile, currentTab, pendingTab, monthSelect, editId, editMonth, nextId>>

\* switchTab(tabId): the refresh of the tab runs from a timer
switchTab(tabId) ==
    /\ currentTab' = tabId
    /\ pendingTab' = (pendingTab \/ tabId = "monthly")
    /\ Finish(NoRefresh(Core), FALSE, Event("switchTab", TRUE))
    /\ UNCHANGED <<pendingSave, csvFile, monthSelect, dataEntryMonthSelect, editId, editMonth, nextId>>

\* the timer of switchTab('monthly'): it refreshes the monthly view whatever
\* the tab is by then; timers pending together are run as one
tabTimer ==
    /\ pendingTab
    /\ pendingTab' = FALSE
    /\ Finish(updateMonthlyView(Core, monthSelect), FALSE, Event("tabTimer", TRUE))
    /\ UNCHANGED <<pendingSave, csvFile, currentTab, monthSelect, dataEntryMonthSelect, editId, editMonth, nextId>>

\* change of yearSelect
changeYear(year) ==
    /\ year # currentYear
    /\ Finish(updateDisplay([Core EXCEPT !.currentYear = year, !.lastSelectedYear = year],
                            currentTab, monthSelect),
              TRUE, Event("changeYear", TRUE))
    /\ UNCHANGED <<pendingSave, csvFile, currentTab, pendingTab, monthSelect, dataEntryMonthSelect,
                   editId, editMonth, nextId>>

\* the session the constructor and initializeDefaultMappings make
Constructed ==
    [transactions |-> <<>>,
     importedCheckItems |-> <<>>,
     mappings |-> defaultMappings,
     incomeItems |-> defaultIncomeItems,
     categories |-> defaultCategories,
     openingBalances |-> EmptyMap,
     manualOpeningBalances |-> {},
     currentYear |-> 2025,
     lastSelectedYear |-> 0]

\* what initialize() loads from localStorage
Loaded(storage) ==
    IF storage = <<>> THEN [st |-> Constructed, dataUpdated |-> FALSE]
    ELSE loadData(storage[1], Constructed)

\* the page is loaded again, given what loadData makes of localStorage: a
\* new session on the data entry tab, with no form open and no timer or
\* request of the old page, and a new DropboxSync over the saved settings,
\* which checks for remote updates at once when bidirectional sync is on; a
\* document that loadData updated is saved again from a timer
reloadWith(loaded) ==
    /\ Leave(NoRefresh(loaded.st), FALSE,
             [Event("loadData", ~loaded.dataUpdated) EXCEPT
                  !.repeat = (budgetData = <<saveData(Core)>>)])
    /\ dropboxSync' = [dropboxSync EXCEPT !.syncInProgress = FALSE]
    /\ requests' = IF dropboxSync.biDirectionalSyncEnabled /\ dropboxSync.accessToken
                   THEN <<Request("metadata", TRUE, <<>>)>> ELSE <<>>
    /\ dropboxFile' = dropboxFile
    /\ pendingSave' = loaded.dataUpdated
    /\ currentTab' = "data-entry"
    /\ pendingTab' = FALSE
    /\ monthSelect' \in Months
    /\ dataEntryMonthSelect' = Pad2(monthSelect')
    /\ editId' = 0
    /\ editMonth' = 0
    /\ csvFile' = NoCsv
    /\ nextId' = nextId

reload == reloadWith(Loaded(budgetData))

\* the timer of loadData: saveData
saveTimer ==
    /\ pendingSave
    /\ pendingSave' = FALSE
    /\ Finish(NoRefresh(Core), TRUE, Event("saveData", TRUE))
    /\ UNCHANGED <<csvFile, currentTab, pendingTab, monthSelect, dataEntryMonthSelect,
                   editId, editMonth, nextId>>

\* what the handlers of DropboxSync leave alone in the page
PageUnchanged ==
    UNCHANGED <<pendingSave, csvFile, currentTab, pendingTab, monthSelect,
                dataEntryMonthSelect, editId, editMonth, nextId>>

\* the upload button: uploadToDropbox()
uploadClick ==
    /\ Leave(NoRefresh(Core), FALSE,
             Event("uploadToDropbox", uploadToDropbox(dropboxSync, requests, Core, FALSE).started))
    /\ dropboxSync' = uploadToDropbox(dropboxSync, requests, Core, FALSE).sync
    /\ requests' = uploadToDropbox(dropboxSync, requests, Core, FALSE).requests
    /\ dropboxFile' = dropboxFile
    /\ PageUnchanged

\* the download button: downloadFromDropbox(), confirmed
downloadClick ==
    /\ Leave(NoRefresh(Core), FALSE,
             Event("downloadFromDropbox", downloadFromDropbox(dropboxSync, requests, FALSE).started))
    /\ dropboxSync' = downloadFromDropbox(dropboxSync, requests, FALSE).sync
    /\ requests' = downloadFromDropbox(dropboxSync, requests, FALSE).requests
    /\ dropboxFile' = dropboxFile
    /\ PageUnchanged

\* the interval timer of startBiDirectionalSync: checkForRemoteUpdates up to
\* its fetch of the metadata
checkForRemoteUpdates ==
    /\ dropboxSync.biDirectionalSyncEnabled
    /\ Cardinality(Polls(requests)) < MaxPolls
    /\ Leave(NoRefresh(Core), FALSE,
             Event("checkForRemoteUpdates",
                   dropboxSync.accessToken /\ ~dropboxSync.syncInProgress))
    /\ requests' = IF dropboxSync.accessToken /\ ~dropboxSync.syncInProgress
                   THEN Append(requests, Request("metadata", TRUE, <<>>)) ELSE requests
    /\ UNCHANGED <<dropboxSync, dropboxFile>>
    /\ PageUnchanged

\* Dropbox handles request i: an upload overwrites the file, a download and
\* a metadata request are answered with the file as it is, or not found
serve(i) ==
    /\ ~requests[i].served
    /\ requests[i].kind = "upload" => dropboxFile.server_modified < MaxModified
    /\ dropboxFile' = IF requests[i].kind = "upload"
                      THEN [data |-> requests[i].body,
                            server_modified |-> dropboxFile.server_modified + 1]
                      ELSE dropboxFile
    /\ requests' = [requests EXCEPT ![i] =
                      [kind |-> @.kind, silent |-> @.silent, served |-> TRUE,
                       ok |-> @.kind = "upload" \/ dropboxFile.data # <<>>,
                       body |-> IF @.kind = "download" THEN dropboxFile.data ELSE <<>>,
                       server_modified |-> dropboxFile'.server_modified]]
    /\ Leave(NoRefresh(Core), FALSE, [Event("serve", TRUE) EXCEPT !.type = requests[i].kind])
    /\ UNCHANGED dropboxSync
    /\ PageUnchanged

\* another client uploads its document
otherClient(data) ==
    /\ dropboxFile.server_modified < MaxModified
    /\ dropboxFile' = [data |-> <<data>>, server_modified |-> dropboxFile.server_modified + 1]
    /\ Leave(NoRefresh(Core), FALSE, Event("otherClient", TRUE))
    /\ UNCHANGED <<dropboxSync, requests>>
    /\ PageUnchanged

\* request i ends with an error response or throws: a transfer ends
fail(i) ==
    /\ Leave(NoRefresh(Core), FALSE, [Event("fail", FALSE) EXCEPT !.type = requests[i].kind])
    /\ dropboxSync' = IF requests[i].kind = "metadata" THEN dropboxSync
                      ELSE [dropboxSync EXCEPT !.syncInProgress = FALSE]
    /\ requests' = Remove(requests, i)
    /\ dropboxFile' = dropboxFile
    /\ PageUnchanged

\* the download of a file that Dropbox does not have: an error response
notFound(i) ==
    /\ requests[i].kind = "download" /\ requests[i].served /\ ~requests[i].ok
    /\ fail(i)

\* uploadToDropbox keeping the timestamp it knew
uploadResponseForgetting(i) ==
    /\ requests[i].kind = "upload" /\ requests[i].served
    /\ Leave(NoRefresh(Core), FALSE, Event("uploadResponse", TRUE))
    /\ dropboxSync' = [dropboxSync EXCEPT !.syncInProgress = FALSE]
    /\ requests' = Remove(requests, i)
    /\ dropboxFile' = dropboxFile
    /\ PageUnchanged

\* uploadToDropbox after its fetch, the response being ok
uploadResponse(i) ==
    /\ requests[i].kind = "upload" /\ requests[i].served
    /\ Leave(NoRefresh(Core), FALSE, Event("uploadResponse", TRUE))
    /\ dropboxSync' = [dropboxSync EXCEPT
                          !.lastRemoteModified = requests[i].server_modified,
                          !.syncInProgress = FALSE]
    /\ requests' = Remove(requests, i)
    /\ dropboxFile' = dropboxFile
    /\ PageUnchanged

\* downloadFromDropbox merging the transactions of the document into those
\* of the session
downloadResponseMerging(i) ==
    /\ requests[i].kind = "download" /\ requests[i].served /\ requests[i].ok
    /\ Leave(updateDisplay([restore(Core, requests[i].body[1]) EXCEPT
                               !.transactions = transactions \o @],
                           currentTab, monthSelect),
             TRUE,
             [Event("downloadResponse", TRUE) EXCEPT
                  !.silent = requests[i].silent,
                  !.dropped = Cardinality({j \in 1..Len(transactions) :
                                  \A k \in 1..Len(requests[i].body[1].transactions) :
                                      requests[i].body[1].transactions[k].id
                                          # transactions[j].id})])
    /\ dropboxSync' = [dropboxSync EXCEPT
                          !.lastRemoteModified = requests[i].server_modified,
                          !.syncInProgress = FALSE]
    /\ requests' = Remove(requests, i)
    /\ dropboxFile' = dropboxFile
    /\ PageUnchanged

\* downloadFromDropbox after its fetch, the response being ok: the document
\* replaces the session, which is saved and shown; the autoSync of the save
\* runs with the transfer still in progress
downloadResponse(i) ==
    /\ requests[i].kind = "download" /\ requests[i].served /\ requests[i].ok
    /\ Leave(updateDisplay(restore(Core, requests[i].body[1]), currentTab, monthSelect),
             TRUE,
             [Event("downloadResponse", TRUE) EXCEPT
                  !.silent = requests[i].silent,
                  !.dropped = Cardinality({j \in 1..Len(transactions) :
                                  \A k \in 1..Len(requests[i].body[1].transactions) :
                                      requests[i].body[1].transactions[k].id
                                          # transactions[j].id})])
    /\ dropboxSync' =
          [autoSync([dropboxSync EXCEPT !.lastRemoteModified = requests[i].server_modified],
                    Remove(requests, i), restore(Core, requests[i].body[1])).sync
             EXCEPT !.syncInProgress = FALSE]
    /\ requests' =
          autoSync([dropboxSync EXCEPT !.lastRemoteModified = requests[i].server_modified],
                   Remove(requests, i), restore(Core, requests[i].body[1])).requests
    /\ dropboxFile' = dropboxFile
    /\ PageUnchanged

\* checkForRemoteUpdates after its fetch: a file newer than the last known
\* one is downloaded, the first timestamp seen is only stored, and a file
\* that is not found changes nothing
metadataResponse(i) ==
    /\ requests[i].kind = "metadata" /\ requests[i].served
    /\ LET found == requests[i].ok
           known == dropboxSync.lastRemoteModified # 0
           newer == found /\ known
                       /\ requests[i].server_modified > dropboxSync.lastRemoteModified
           download == downloadFromDropbox(dropboxSync, Remove(requests, i), TRUE)
       IN  /\ Leave(NoRefresh(Core), FALSE,
                    [Event("metadataResponse", newer /\ download.started) EXCEPT
                         !.newer = newer, !.known = known])
           /\ dropboxSync' =
                 IF newer THEN download.sync
                 ELSE IF found /\ ~known
                 THEN [dropboxSync EXCEPT
                          !.lastRemoteModified = requests[i].server_modified]
                 ELSE dropboxSync
           /\ requests' = IF newer THEN download.requests ELSE Remove(requests, i)
    /\ dropboxFile' = dropboxFile
    /\ PageUnchanged

\* importData(file), the restore of a backup, confirmed by the user: the
\* parts the document has replace those of the session
importData(data) ==
    LET has(field) == field \in DOMAIN data
        year == IF has("lastSelectedYear") THEN data.lastSelectedYear ELSE 0
        st == [Core EXCEPT
                 !.transactions = IF has("transactions")
                                  THEN parseTransactions(data.transactions) ELSE <<>>,
                 !.mappings = IF has("mappings") THEN parseMappings(<<>>, data.mappings)
                              ELSE @,
                 !.incomeItems = IF has("incomeItems") THEN data.incomeItems ELSE @,
                 !.categories = IF has("categories") THEN data.categories ELSE @,
                 !.openingBalances =
                     IF has("openingBalances") THEN data.openingBalances ELSE @,
                 !.manualOpeningBalances =
                     IF has("manualOpeningBalances") THEN data.manualOpeningBalances ELSE @,
                 !.lastSelectedYear = IF year # 0 THEN year ELSE @,
                 !.currentYear = IF year # 0 THEN year ELSE @]
    IN  /\ Finish(updateDisplay(st, currentTab, monthSelect), TRUE,
                  Event("importData", TRUE))
        /\ UNCHANGED <<pendingSave, csvFile, currentTab, pendingTab, monthSelect, dataEntryMonthSelect,
                       editId, editMonth, nextId>>

\* the export button: exportData() offers the document for download; from is
\* the session at that time (history)
exportDataClick ==
    /\ exportFile' = <<[data |-> exportData(Core), from |-> Core]>>
    /\ ev' = Event("exportData", TRUE)
    /\ UNCHANGED <<transactions, importedCheckItems, mappings, incomeItems, categories,
                   openingBalances, manualOpeningBalances, currentYear, lastSelectedYear,
                   budgetData, dropboxSync, dropboxFile, requests>>
    /\ PageUnchanged

\* the page is opened in a browser that has never run it: the constructor
\* over an empty localStorage; the exported file is at hand
freshSession ==
    /\ transactions' = Constructed.transactions
    /\ importedCheckItems' = Constructed.importedCheckItems
    /\ mappings' = Constructed.mappings
    /\ incomeItems' = Constructed.incomeItems
    /\ categories' = Constructed.categories
    /\ openingBalances' = Constructed.openingBalances
    /\ manualOpeningBalances' = Constructed.manualOpeningBalances
    /\ currentYear' = Constructed.currentYear
    /\ lastSelectedYear' = Constructed.lastSelectedYear
    /\ budgetData' = <<>>
    /\ ev' = Event("loadData", TRUE)
    /\ dropboxSync' = NoSync
    /\ requests' = <<>>
    /\ pendingSave' = FALSE
    /\ currentTab' = "data-entry"
    /\ pendingTab' = FALSE
    /\ monthSelect' \in Months
    /\ dataEntryMonthSelect' = Pad2(monthSelect')
    /\ editId' = 0
    /\ editMonth' = 0
    /\ csvFile' = NoCsv
    /\ nextId' = nextId
    /\ UNCHANGED <<dropboxFile, exportFile>>

\* calculateClosingBalance keeping its result as the opening balance of the
\* period
calculateClosingBalanceCallCaching(month, year) ==
    /\ Finish(NoRefresh([Core EXCEPT !.openingBalances =
                             (Key(year, month) :> calculateClosingBalance(month, year)) @@ @]),
              FALSE,
              [Event("calculateClosingBalance", TRUE) EXCEPT
                   !.month = month, !.year = year,
                   !.closing = calculateClosingBalance(month, year)])
    /\ UNCHANGED <<pendingSave, csvFile, currentTab, pendingTab, monthSelect, dataEntryMonthSelect,
                   editId, editMonth, nextId>>

\* a call of calculateClosingBalance(month, year)
calculateClosingBalanceCall(month, year) ==
    /\ Finish(NoRefresh(Core), FALSE,
              [Event("calculateClosingBalance", TRUE) EXCEPT
                   !.month = month, !.year = year,
                   !.closing = calculateClosingBalance(month, year)])
    /\ UNCHANGED <<pendingSave, csvFile, currentTab, pendingTab, monthSelect, dataEntryMonthSelect,
                   editId, editMonth, nextId>>

\* updateColorSummary with a month selected on the data entry tab: the
\* closing balance of the month before, December of the year before for
\* January
updateColorSummary ==
    /\ dataEntryMonthSelect # "all"
    /\ LET monthNumber == parseInt(<<dataEntryMonthSelect>>).v
           prevMonth == IF monthNumber = 1 THEN December ELSE monthNumber - 1
           prevYear == IF monthNumber = 1 THEN currentYear - 1 ELSE currentYear
       IN  calculateClosingBalanceCall(prevMonth, prevYear)

-----------------------------------------------------------------------------
(* Inputs *)

Row(year, monthName, item, debit, credit) ==
    << <<year>>, <<monthName>>, item, debit, credit >>

None == <<>>

\* rows of the import batches
RowDebit4 == Row("2025", "YNWAR", Electric, <<"4">>, None)
RowDebit5 == Row("2025", "YNWAR", Electric, <<"5">>, None)
RowDebit6 == Row("2025", "YNWAR", Electric, <<"6">>, None)
RowCredit4 == Row("2025", "YNWAR", Electric, None, <<"4">>)
RowCreditMinus4 == Row("2025", "YNWAR", Electric, None, <<"-4">>)
RowBoth == Row("2025", "YNWAR", Electric, <<"4">>, <<"6">>)
RowNeither == Row("2025", "YNWAR", Electric, None, None)
RowNeitherFeb == Row("2025", "PBRWAR", Electric, None, None)
RowBadAmount == Row("2025", "YNWAR", Electric, <<"abc">>, None)
RowFeb == Row("2025", "PBRWAR", Electric, <<"4">>, None)
Row2024 == Row("2024", "YNWAR", Electric, <<"4">>, None)
RowBadMonth == Row("2025", "Jan", Electric, <<"4">>, None)
RowCheckItem == Row("2025", "YNWAR", CheckMarker, <<"4">>, None)
RowCheckCredit == Row("2025", "YNWAR", CheckMarker, None, <<"4">>)
RowQuoted == Row("2025", "YNWAR", <<DQ, "XSML", Geresh>>, <<"4">>, None)
RowShort == << <<"2025">>, <<"PBRWAR">>, Electric >>

ImportRows ==
    {RowDebit4, RowDebit5, RowDebit6, RowCredit4, RowCreditMinus4, RowBoth, RowNeither,
     RowNeitherFeb, RowBadAmount, RowFeb, Row2024, RowBadMonth, RowCheckItem,
     RowQuoted, RowShort}

RowSeqs(rows) == UNION {[1..n -> rows] : n \in 1..MaxRows}

BadHeader == << <<"SNH">>, <<"XWDS">>, <<"PRYT">>, <<"ZKWT">>, <<"XWBH">> >>
QuotedHeader == << <<DQ, "SNH", DQ>>, <<"XWDS">>, <<"PRYT">>, <<"XWBH">>, <<"ZKWT">> >>

\* the batches of the import specification
ImportBatches ==
    {[header |-> expectedHeaders, rows |-> r] : r \in RowSeqs(ImportRows)}
    \cup {[header |-> BadHeader, rows |-> <<RowDebit4>>],
          [header |-> QuotedHeader, rows |-> <<RowDebit4>>],
          [header |-> expectedHeaders, rows |-> <<>>]}

\* the batches of the session specification
Form(item, amount, type, special) ==
    [item |-> item, amount |-> amount, type |-> type, isCheck |-> FALSE,
     isSpecialCheckItem |-> special]

\* the dashboard and settings tabs refresh no state and are left out
Tabs == {"data-entry", "monthly"}
MonthOptions == {Pad2(m) : m \in Months} \cup {"all"}
IdsInUse == 1..MaxId

-----------------------------------------------------------------------------
(* Specifications *)

\* the user picks the file to import; the import specification follows one
\* file through its imports
chooseFile ==
    /\ csvFile = NoCsv
    /\ csvFile' \in ImportBatches
    /\ Finish(NoRefresh(Core), FALSE, Event("chooseFile", TRUE))
    /\ UNCHANGED <<pendingSave, currentTab, pendingTab, monthSelect, dataEntryMonthSelect,
                   editId, editMonth, nextId>>

NextImport ==
    \/ chooseFile
    \/ csvFile # NoCsv /\ importCSV(csvFile)
    \/ \E value \in MonthOptions : selectDataEntryMonth(value)
    \/ \E year \in Years : changeYear(year)

SpecImport == Init /\ [][NextImport]_vars

BalanceForms == {Form(Electric, <<"6">>, "income", FALSE)}

NextBalance ==
    \/ \E form \in BalanceForms : addTransaction(form)
    \/ \E id \in IdsInUse : editTransaction(id)
    \/ \E id \in IdsInUse : deleteTransaction(id)
    \/ importCSV([header |-> expectedHeaders, rows |-> <<RowDebit4>>])
    \/ \E month \in Months, input \in {<<"7">>, None} : saveOpeningBalance(month, input)
    \/ \E month \in Months : selectMonth(month)
    \/ \E value \in MonthOptions \ {"all"} : selectDataEntryMonth(value)
    \/ \E tabId \in Tabs : switchTab(tabId)
    \/ tabTimer

SpecBalance == Init /\ [][NextBalance]_vars

\* the balance engine over both years, with manual opening balances
NextChain ==
    \/ \E form \in BalanceForms : addTransaction(form)
    \/ \E id \in IdsInUse : deleteTransaction(id)
    \/ \E month \in Months : saveOpeningBalance(month, <<"7">>)
    \/ \E month \in Months : selectMonth(month)
    \/ \E value \in MonthOptions \ {"all"} : selectDataEntryMonth(value)
    \/ \E tabId \in Tabs : switchTab(tabId)
    \/ tabTimer
    \/ \E year \in Years : changeYear(year)

SpecChain == Init /\ [][NextChain]_vars

MappingForms ==
    {Form(Electric, <<"4">>, "expense", FALSE),
     Form(<<Blank, "QPH">>, <<"4">>, "expense", FALSE)}

\* the mapping table and the transactions that use its items
NextMapping ==
    \/ \E form \in MappingForms : addTransaction(form)
    \/ \E id \in IdsInUse : editTransaction(id)
    \/ showTransactionForm
    \/ \E id \in IdsInUse : deleteTransaction(id)
    \/ importCSV([header |-> expectedHeaders, rows |-> <<RowQuoted>>])
    \/ addMapping(Coffee, Misc, TRUE)
    \/ \E item \in {Electric, Coffee} : deleteMapping(item)

SpecMapping == Init /\ [][NextMapping]_vars

DedupBatches ==
    {[header |-> expectedHeaders, rows |-> r] :
        r \in {<<RowDebit4>>, <<RowDebit5>>, <<RowDebit6>>, <<RowDebit4, RowDebit5>>,
               <<RowDebit4, RowDebit6>>, <<RowCredit4, RowDebit4>>}}

DedupForms == {Form(Electric, <<"4">>, "expense", FALSE)}

\* imports of several batches, with edits of what was imported
NextDedup ==
    \/ \E csv \in DedupBatches : importCSV(csv)
    \/ \E form \in DedupForms : addTransaction(form)
    \/ \E id \in IdsInUse : editTransaction(id)
    \/ showTransactionForm
    \/ \E id \in IdsInUse : deleteTransaction(id)
    \/ \E value \in MonthOptions : selectDataEntryMonth(value)

SpecDedup == Init /\ [][NextDedup]_vars

CheckBatches ==
    {[header |-> expectedHeaders, rows |-> r] :
        r \in {<<RowCheckItem>>, <<RowCheckItem, RowCredit4>>, <<RowCheckCredit>>}}

CheckForms ==
    {Form(Electric, <<"4">>, "expense", TRUE),
     Form(Electric, <<"6">>, "income", FALSE)}

\* imported check items next to the balance view
NextChecks ==
    \/ \E csv \in CheckBatches : importCSV(csv)
    \/ \E form \in CheckForms : addTransaction(form)
    \/ \E id \in IdsInUse : deleteImportedCheckItem(id)
    \/ \E id \in IdsInUse : editImportedCheckItem(id, Coffee)
    \/ \E month \in Months : selectMonth(month)
    \/ \E tabId \in Tabs : switchTab(tabId)
    \/ tabTimer

SpecChecks == Init /\ [][NextChecks]_vars

\* a transaction of a backup document
BackupTransaction(id, amount, type, month, year) ==
    [id |-> id, item |-> Electric, amount |-> amount, type |-> type,
     category |-> Taxes, month |-> JsonNumber(month), year |-> year,
     paymentMethod |-> "cash", origin |-> "entry"]

\* a backup of an early version: its transaction of December has no year
OldBackup ==
    [transactions |-> <<BackupTransaction(101, 6, "income", December, 0)>>]

\* a backup as exportData writes it
ExportedBackup ==
    [transactions |-> <<BackupTransaction(102, -4, "expense", 1, 2024)>>,
     mappings |-> stringifyMappings(defaultMappings),
     incomeItems |-> defaultIncomeItems,
     categories |-> defaultCategories,
     openingBalances |-> (Key(2024, 1) :> 7),
     lastSelectedYear |-> 2024]

BackupDocs == {OldBackup, ExportedBackup}

\* closing balances asked for by the data entry tab, over entered and
\* restored transactions
NextClosing ==
    \/ \E data \in BackupDocs : importData(data)
    \/ \E form \in BalanceForms : addTransaction(form)
    \/ \E value \in MonthOptions : selectDataEntryMonth(value)
    \/ \E year \in Years : changeYear(year)
    \/ updateColorSummary

SpecClosing == Init /\ [][NextClosing]_vars

\* a call of getCategoryForItem(item) on the session's mapping table
getCategoryForItemCall(item) ==
    /\ Finish(NoRefresh(Core), FALSE,
              [Event("getCategoryForItem", TRUE) EXCEPT
                   !.item = item, !.category = getCategoryForItem(mappings, item)])
    /\ UNCHANGED <<pendingSave, csvFile, currentTab, pendingTab, monthSelect, dataEntryMonthSelect,
                   editId, editMonth, nextId>>

\* a call of getTransactionType(item) on the session's income items
getTransactionTypeCall(item) ==
    /\ Finish(NoRefresh(Core), FALSE,
              [Event("getTransactionType", TRUE) EXCEPT
                   !.item = item, !.type = getTransactionType(incomeItems, item)])
    /\ UNCHANGED <<pendingSave, csvFile, currentTab, pendingTab, monthSelect, dataEntryMonthSelect,
                   editId, editMonth, nextId>>

Groceries == "groceries"
SuperMarket == <<"S", "uper", Blank, "M", "arket">>
superMarket == <<"s", "uper", Blank, "m", "arket">>
ElectricHome == <<"XSML", Blank, "BYT">>
ElectricHomeBill == <<"XSML", Blank, "BYT", Blank, "XSBWN">>
DepositWithdrawal == <<"MSYK", "T", Blank, "PQDWN">>
DepositInterest == <<"RYBYT", Blank, "M", "PYQDWN">>
DepositPlacement == <<"HPQD", "H", Blank, "L", "PQDWN">>
DepositBoth == <<"HPQD", "H", Blank, "W", "MSYK", "H", Blank, "PQDWN">>
BituachLeumiGQuoted == <<"BYTWX", Blank, "LAWMY", Blank, "G", Gershayim>>
BituachLeumiGMore == <<"BYTWX", Blank, "LAWMY", Blank, "G", Blank, "2">>
BituachLeumiChildren == <<"BYTWX", Blank, "LAWMY", Blank, "YLDYM">>
SalaryBonus == <<"MSKWRT", Blank, "13">>

ClassifyItems ==
    {Electric, Coffee, <<Blank, "XSML", DQ>>, ElectricHome, ElectricHomeBill,
     SuperMarket, superMarket, Deposit1, DepositWithdrawal, DepositInterest,
     DepositPlacement, DepositBoth, BituachLeumi, BituachLeumiGQuoted,
     BituachLeumiGMore, BituachLeumiChildren, Salary, SalaryBonus}

Entry(item, category) ==
    [item |-> item, category |-> category, includeInMonthlyExpenses |-> TRUE]

MappingTables ==
    {<<>>,
     defaultMappings,
     <<Entry(SuperMarket, Groceries)>>,
     <<Entry(Electric, Taxes), Entry(ElectricHome, Misc)>>,
     <<Entry(ElectricHome, Misc), Entry(Electric, Taxes)>>,
     <<Entry(DepositWithdrawal, Misc), Entry(BituachLeumi, Misc),
       Entry(BituachLeumiG, Misc)>>,
     <<Entry(Coffee, ""), Entry(Electric, Taxes)>>}

IncomeItemSets ==
    {<<>>, defaultIncomeItems, <<SalaryBonus, DepositPlacement, DepositWithdrawal>>}

\* a session with any of the mapping tables and income item sets
InitClassify ==
    /\ transactions = <<>>
    /\ importedCheckItems = <<>>
    /\ mappings \in MappingTables
    /\ incomeItems \in IncomeItemSets
    /\ categories = defaultCategories
    /\ openingBalances = EmptyMap
    /\ manualOpeningBalances = {}
    /\ currentYear = 2025
    /\ lastSelectedYear = 0
    /\ currentTab = "data-entry"
    /\ pendingTab = FALSE
    /\ monthSelect = 1
    /\ dataEntryMonthSelect = Pad2(monthSelect)
    /\ editId = 0
    /\ editMonth = 0
    /\ budgetData = <<>>
    /\ pendingSave = FALSE
    /\ csvFile = NoCsv
    /\ nextId = 1
    /\ ev = Event("init", TRUE)
    /\ dropboxSync = NoSync
    /\ dropboxFile = NoFile
    /\ requests = <<>>
    /\ exportFile = <<>>

\* the two classifiers applied to items, the mapping table edited in between
NextClassify ==
    \/ \E item \in ClassifyItems : getCategoryForItemCall(item)
    \/ \E item \in ClassifyItems : getTransactionTypeCall(item)
    \/ addMapping(Coffee, Misc, TRUE)
    \/ \E item \in {Electric, BituachLeumi} : deleteMapping(item)

SpecClassify == InitClassify /\ [][NextClassify]_vars

-----------------------------------------------------------------------------
(* What a batch says, read off its rows (used to state the claims) *)

IsDataRow(row) == Len(row) >= 5
DataRowsOf(csv) == SelectSeq(csv.rows, IsDataRow)

RowMonthKnown(row) == Len(Trim(row[2])) = 1 /\ Trim(row[2])[1] \in DOMAIN monthMap
RowHasDebit(row) == Trim(row[4]) # <<>>
RowHasCredit(row) == Trim(row[5]) # <<>>
RowIsCheckMarker(row) == StripImportQuotes(Trim(row[3])) = CheckMarker

HeaderMatches(csv) ==
    /\ Len(csv.header) >= 5
    /\ \A i \in 1..5 : Without(Trim(csv.header[i]), {DQ}) = expectedHeaders[i]

\* the batch has rows of one period only, and it is the period of the target
\* <<value of dataEntryMonthSelect, current year>>
SinglePeriodOnTarget(csv, target) ==
    \A i \in 1..Len(DataRowsOf(csv)) :
        LET row == DataRowsOf(csv)[i]
        IN  /\ RowMonthKnown(row)
            /\ monthMap[Trim(row[2])[1]] = target[1]
            /\ ~parseInt(row[1]).nan
            /\ parseInt(row[1]).v = target[2]

-----------------------------------------------------------------------------
(* Claims on the import reconciler, specification SpecImport *)

\* C1: importing the same batch a second time in a row, with the same
\* selected month and year, leaves the transaction store as it is, and the
\* second import skips as many duplicates as the batch has parsed
\* transactions.
C1_ReimportAddsNothing ==
    [][(ev'.op = "importCSV" /\ ev'.repeat /\ ev'.ok)
          => /\ transactions' = transactions
             /\ ev'.added = 0
             /\ ev'.skipped = Len(ev'.result.transactions)]_vars

C1_Witness ==
    /\ ev.op = "importCSV" /\ ev.repeat /\ ev.ok
    /\ Len(ev.result.transactions) = 2
    /\ Len(transactions) = 1

\* C8: an accepted batch has data rows of one month and one year only, the
\* selected month and the current year; any other batch adds nothing.
C8_SinglePeriodOnly ==
    ev.op = "importCSV" =>
        /\ ev.ok => SinglePeriodOnTarget(csvFile, ev.target)
        /\ ~SinglePeriodOnTarget(csvFile, ev.target) =>
               ~ev.ok /\ ev.added = 0 /\ ev.checksAdded = 0

C8_Witness ==
    /\ ev.op = "importCSV" /\ ~ev.ok
    /\ ev.result.error \in {"multiMonth", "multiYear"}
    /\ Len(DataRowsOf(csvFile)) = 2

\* C6: every stored transaction has a negative amount exactly when its type
\* is expense.
C6_SignInvariant ==
    \A i \in 1..Len(transactions) :
        (transactions[i].amount < 0) <=> (transactions[i].type = "expense")

\* the amount text parseAndValidateCSV reads from a row: the credit if there
\* is one, else the debit
RowUsedAmount(row) == IF RowHasCredit(row) THEN row[5] ELSE row[4]

\* the ways a batch fails validation
BatchInvalid(csv, target) ==
    \/ ~HeaderMatches(csv)
    \/ \E i \in 1..Len(DataRowsOf(csv)) :
          LET row == DataRowsOf(csv)[i]
          IN  \/ ~RowMonthKnown(row)
              \/ (RowHasDebit(row) \/ RowHasCredit(row))
                    /\ parseFloat(RowUsedAmount(row)).nan
    \/ ~SinglePeriodOnTarget(csv, target)

\* C7: a batch that fails validation is rejected as a whole: the transaction
\* store and the imported check item store are as before the import, and
\* nothing is saved.
C7_RejectedBatchWritesNothing ==
    [][(ev'.op = "importCSV" /\ (~ev'.ok \/ BatchInvalid(csvFile', ev'.target)))
          => /\ ~ev'.ok
             /\ transactions' = transactions
             /\ importedCheckItems' = importedCheckItems
             /\ budgetData' = budgetData]_vars

\* a batch rejected for its period, on top of a store that holds rows already
C7_Witness ==
    /\ ev.op = "importCSV" /\ ~ev.ok
    /\ ev.result.error \in {"monthMismatch", "yearMismatch"}
    /\ BatchInvalid(csvFile, ev.target)
    /\ transactions # <<>>

RowOneSided(row) == RowHasDebit(row) # RowHasCredit(row)
RowSomeSided(row) == RowHasDebit(row) \/ RowHasCredit(row)
RowIsPlain(row) == ~RowIsCheckMarker(row)
RowType(row) == IF RowHasCredit(row) THEN "income" ELSE "expense"

\* the rows of a batch that come out as transactions and as check items,
\* when the rows in produce are the ones that produce anything
OutputsAgree(result, produce) ==
    LET plain == SelectSeq(produce, RowIsPlain)
        marked == SelectSeq(produce, RowIsCheckMarker)
    IN  /\ Len(result.transactions) = Len(plain)
        /\ \A i \in 1..Len(plain) :
              i <= Len(result.transactions)
                 => result.transactions[i].type = RowType(plain[i])
        /\ Len(result.checkItems) = Len(marked)

\* C9 as stated: of an accepted batch, the data rows with exactly one of
\* debit and credit are the ones that produce a transaction or a check item
\* (income for a credit, expense for a debit), rows with both or neither
\* produce nothing; a one-sided row with a non-numeric amount aborts the batch.
C9_BothOrNeitherSkipped ==
    ev.op = "importCSV" =>
        /\ ev.result.success =>
              OutputsAgree(ev.result, SelectSeq(DataRowsOf(csvFile), RowOneSided))
        /\ (\E i \in 1..Len(DataRowsOf(csvFile)) :
               /\ RowOneSided(DataRowsOf(csvFile)[i])
               /\ parseFloat(RowUsedAmount(DataRowsOf(csvFile)[i])).nan)
              => ~ev.result.success

\* C9, amended: only the rows with neither debit nor credit produce nothing;
\* a row with a credit becomes income whether or not it has a debit too, a
\* row with a debit only becomes expense; a row whose used amount (the
\* credit if present, else the debit) is non-numeric aborts the batch.
C9_NeitherSkippedCreditWins ==
    ev.op = "importCSV" =>
        /\ ev.result.success =>
              OutputsAgree(ev.result, SelectSeq(DataRowsOf(csvFile), RowSomeSided))
        /\ (\E i \in 1..Len(DataRowsOf(csvFile)) :
               /\ RowSomeSided(DataRowsOf(csvFile)[i])
               /\ parseFloat(RowUsedAmount(DataRowsOf(csvFile)[i])).nan)
              => ~ev.result.success

\* an accepted batch of a row with both sides and a row with neither
C9_Witness ==
    /\ ev.op = "importCSV" /\ ev.result.success
    /\ \E i \in 1..Len(csvFile.rows) :
          IsDataRow(csvFile.rows[i]) /\ RowHasDebit(csvFile.rows[i])
             /\ RowHasCredit(csvFile.rows[i])
    /\ \E i \in 1..Len(csvFile.rows) :
          IsDataRow(csvFile.rows[i]) /\ ~RowSomeSided(csvFile.rows[i])
    /\ Len(ev.result.transactions) = 1

-----------------------------------------------------------------------------
(* Claims on the balance engine, specifications SpecChain and SpecBalance *)

\* the key of the month the balance summary was last computed for
ViewKey == Key(currentYear, ev.view.month)

\* C3: when updateBalanceSummary has run for a month m > 1 of the current
\* year whose key is not manual, and the closing balance of month m - 1 is
\* not zero, the opening balance it produced is that closing balance, and
\* that value is stored in openingBalances under the key.
C3_OpeningChainsFromClosing ==
    (/\ ev.view.ran
     /\ ev.view.month > 1
     /\ ViewKey \notin manualOpeningBalances
     /\ calculateClosingBalance(ev.view.month - 1, currentYear) # 0)
    => /\ ev.view.openingBalance
             = calculateClosingBalance(ev.view.month - 1, currentYear)
       /\ ViewKey \in DOMAIN openingBalances
       /\ openingBalances[ViewKey]
             = calculateClosingBalance(ev.view.month - 1, currentYear)

\* the summary ran for a month whose previous month has transactions of the
\* year and an opening balance of its own
C3_Witness ==
    /\ ev.view.ran
    /\ ev.view.month > 1
    /\ ViewKey \notin manualOpeningBalances
    /\ Key(currentYear, ev.view.month - 1) \in DOMAIN openingBalances
    /\ openingBalances[Key(currentYear, ev.view.month - 1)] # 0
    /\ Len(transactions) = 2
    /\ calculateClosingBalance(ev.view.month - 1, currentYear)
          # openingBalances[Key(currentYear, ev.view.month - 1)]
    /\ openingBalances[ViewKey]
          = calculateClosingBalance(ev.view.month - 1, currentYear)

\* C4: the value stored under a key of manualOpeningBalances is changed by
\* no step other than a manual edit of that opening balance; the key stays
\* manual.
C4_ManualOpeningKept ==
    [][\A key \in manualOpeningBalances :
          (ev'.op # "saveOpeningBalance" \/ Key(currentYear, ev'.month) # key)
             => /\ key \in manualOpeningBalances'
                /\ key \in DOMAIN openingBalances'
                /\ openingBalances'[key] = openingBalances[key]]_vars

\* the summary ran for a manual month, after a change of the transactions,
\* and the closing balance of the month before differs from the manual value
C4_Witness ==
    /\ ev.view.ran
    /\ ev.op \in {"addTransaction", "editTransaction", "deleteTransaction", "importCSV"}
    /\ ev.view.month > 1
    /\ ViewKey \in manualOpeningBalances
    /\ calculateClosingBalance(ev.view.month - 1, currentYear) # 0
    /\ openingBalances[ViewKey]
          # calculateClosingBalance(ev.view.month - 1, currentYear)

-----------------------------------------------------------------------------
(* Claims on the mapping table, specification SpecMapping *)

ItemInUse(item) == \E i \in 1..Len(transactions) : transactions[i].item = item

MappedItems(m) == {item \in {Electric, Coffee} : MapHas(m, item)}

\* C5: deleteMapping(item) while a transaction has the item leaves the
\* mapping table as it is and saves nothing; no step removes the mapping of
\* an item that a transaction has.
C5_MappingInUseNotDeleted ==
    [][/\ (ev'.op = "deleteMapping" /\ ItemInUse(ev'.item))
             => mappings' = mappings /\ budgetData' = budgetData
       /\ \A item \in MappedItems(mappings) \ MappedItems(mappings') :
             ~ItemInUse(item)]_vars

\* a rejected deleteMapping; the table has the mapping still
C5_Witness ==
    /\ ev.op = "deleteMapping"
    /\ ItemInUse(ev.item)
    /\ MapHas(mappings, ev.item)
    /\ ~ev.ok

-----------------------------------------------------------------------------
(* Claims on the merge of a batch, specification SpecDedup *)

\* the duplicate rule: item, month, year and type equal, amounts less than
\* 0.01 apart
SameUnderRule(a, b) ==
    /\ a.item = b.item
    /\ a.month = b.month
    /\ a.year = b.year
    /\ a.type = b.type
    /\ Abs(a.amount - b.amount) < 2

\* after an import: every candidate was skipped exactly when the store, as it
\* was when the candidate was looked at, had a duplicate of it; every other
\* candidate is in the store, right behind what the store had then
MergeFollowsRule ==
    (ev.op = "importCSV" /\ ev.ok) =>
        /\ Len(ev.log) = Len(ev.result.transactions)
        /\ ev.added + ev.skipped = Len(ev.log)
        /\ \A n \in 1..Len(ev.log) :
              LET entry == ev.log[n]
              IN  /\ entry.cand = ev.result.transactions[n]
                  /\ entry.before <= Len(transactions)
                  /\ entry.skipped <=>
                        \E i \in 1..entry.before :
                            SameUnderRule(transactions[i], entry.cand)
                  /\ ~entry.skipped =>
                        /\ entry.before < Len(transactions)
                        /\ transactions[entry.before + 1].origin = "import"
                        /\ SameUnderRule(transactions[entry.before + 1], entry.cand)
                        /\ transactions[entry.before + 1].amount = entry.cand.amount

NoImportedDuplicates ==
    \A i, j \in 1..Len(transactions) :
        (/\ i < j
         /\ transactions[i].origin = "import"
         /\ transactions[j].origin = "import")
        => ~SameUnderRule(transactions[i], transactions[j])

\* C2 as stated: the merge skips a candidate exactly when the store has a
\* duplicate of it and appends every other candidate, and the store never
\* holds two transactions that came from import and are duplicates of each
\* other.
C2_NeverTwoImportedDuplicates == MergeFollowsRule /\ NoImportedDuplicates

\* C2, amended: the merge skips a candidate exactly when the store has a
\* duplicate of it and appends every other candidate, so that no transaction
\* has a duplicate in the store at the time import appends it.
C2_MergeSkipsExactlyDuplicates ==
    /\ MergeFollowsRule
    /\ (ev.op = "importCSV" /\ ev.ok) =>
          \A j \in (Len(transactions) - ev.added + 1)..Len(transactions) :
              \A i \in 1..(j - 1) : ~SameUnderRule(transactions[i], transactions[j])

\* an import that skipped one candidate and appended another to a store
\* that held a transaction already
C2_Witness ==
    /\ ev.op = "importCSV" /\ ev.ok
    /\ ev.added = 1
    /\ ev.skipped = 1
    /\ Len(transactions) = 2

\* documents of localStorage left by earlier sessions
SavedTransaction(id, item, category, amount, type, month, year) ==
    [id |-> id, item |-> item, amount |-> amount, type |-> type,
     category |-> category, month |-> month, year |-> year,
     paymentMethod |-> "cash", origin |-> "entry"]

\* of an early version: no years, months as strings, quoted items, mappings
\* as categories alone; the user maps electricity to a category of their own
EarlyDocument ==
    [transactions |->
        <<SavedTransaction(101, <<Blank, DQ, "XSML", DQ>>, Uncategorized, -4, "expense",
                           JsonString(<<"02">>), 0)>>,
     mappings |-> <<[item |-> Coffee, value |-> [string |-> Groceries]],
                    [item |-> Electric, value |-> [string |-> Misc]]>>,
     incomeItems |-> <<SalaryBonus>>,
     categories |-> <<Groceries>>]

\* with transactions of deposit items and of national insurance under
\* types and categories of before the fixes, and a mapping with no flag
UnfixedDocument ==
    [transactions |->
        <<SavedTransaction(101, DepositWithdrawal, DepositCategory, -4, "expense",
                           JsonNumber(1), 2024),
          SavedTransaction(102, BituachLeumiGQuoted, Misc, 6, "income",
                           JsonNumber(2), 2025)>>,
     importedCheckItems |-> <<>>,
     mappings |-> <<[item |-> Electric,
                     value |-> [category |-> Misc, includeInMonthlyExpenses |-> TRUE]],
                    [item |-> SuperMarket, value |-> [category |-> Groceries]]>>,
     incomeItems |-> <<BituachLeumi, Salary, SalaryBonus>>,
     categories |-> <<Misc, Groceries>>,
     openingBalances |-> (Key(2024, 1) :> 7),
     manualOpeningBalances |-> {Key(2024, 1)},
     lastSelectedYear |-> 2024]

\* as saveData writes it, with nothing to fix
CurrentDocument ==
    saveData([Constructed EXCEPT
                !.transactions = <<SavedTransaction(101, Electric, Taxes, -4, "expense",
                                                    1, 2025)>>,
                !.mappings = loadDefaultMappings \o <<Entry(Coffee, Misc)>>,
                !.openingBalances = (Key(2025, 2) :> -4)])

\* as saveData writes it after the import of a deposit withdrawal whose
\* credit column held a negative number: an income of negative amount
NegativeCreditDocument ==
    saveData([Constructed EXCEPT
                !.transactions = <<SavedTransaction(101, DepositWithdrawal, DepositCategory,
                                                    -4, "income", 1, 2025)>>])

SavedDocs == {EarlyDocument, UnfixedDocument, CurrentDocument, NegativeCreditDocument}

\* a session as initialize() leaves it, over any of the saved documents or
\* none
InitLoad ==
    /\ budgetData \in {<<>>} \cup {<<data>> : data \in SavedDocs}
    /\ transactions = Loaded(budgetData).st.transactions
    /\ importedCheckItems = Loaded(budgetData).st.importedCheckItems
    /\ mappings = Loaded(budgetData).st.mappings
    /\ incomeItems = Loaded(budgetData).st.incomeItems
    /\ categories = Loaded(budgetData).st.categories
    /\ openingBalances = Loaded(budgetData).st.openingBalances
    /\ manualOpeningBalances = Loaded(budgetData).st.manualOpeningBalances
    /\ currentYear = Loaded(budgetData).st.currentYear
    /\ lastSelectedYear = Loaded(budgetData).st.lastSelectedYear
    /\ pendingSave = Loaded(budgetData).dataUpdated
    /\ currentTab = "data-entry"
    /\ pendingTab = FALSE
    /\ monthSelect \in Months
    /\ dataEntryMonthSelect = Pad2(monthSelect)
    /\ editId = 0
    /\ editMonth = 0
    /\ csvFile = NoCsv
    /\ nextId = 1
    /\ ev = Event("loadData", ~Loaded(budgetData).dataUpdated)
    /\ dropboxSync = NoSync
    /\ dropboxFile = NoFile
    /\ requests = <<>>
    /\ exportFile = <<>>

\* page loads, the save timer of loadData, and handlers that save
NextLoad ==
    \/ reload
    \/ saveTimer
    \/ \E year \in Years : changeYear(year)
    \/ \E form \in BalanceForms : addTransaction(form)
    \/ \E id \in IdsInUse : deleteTransaction(id)

SpecLoad == InitLoad /\ [][NextLoad]_vars

\* the transaction form, open for an edit, next to the selectors of the page
NextEdit ==
    \/ \E form \in MappingForms : addTransaction(form)
    \/ \E id \in IdsInUse : editTransaction(id)
    \/ showTransactionForm
    \/ \E id \in IdsInUse : deleteTransaction(id)
    \/ \E value \in MonthOptions : selectDataEntryMonth(value)
    \/ \E year \in Years : changeYear(year)

SpecEdit == Init /\ [][NextEdit]_vars

RowCheckPayment == Row("2025", "YNWAR", <<"SYQ", Blank, "XSML">>, <<"4">>, None)
RowCoffee == Row("2025", "YNWAR", Coffee, <<"5">>, None)

AssignBatches ==
    {[header |-> expectedHeaders, rows |-> r] :
        r \in {<<RowDebit4>>, <<RowCheckPayment>>, <<RowCoffee, RowCheckPayment>>}}

\* imports over a mapping table that the user changes
NextAssign ==
    \/ \E csv \in AssignBatches : importCSV(csv)
    \/ addMapping(Coffee, Taxes, TRUE)
    \/ \E item \in {Electric, Coffee} : deleteMapping(item)
    \/ \E id \in IdsInUse : deleteTransaction(id)

SpecAssign == Init /\ [][NextAssign]_vars

\* rows of deposit items, in the column of their kind and in the other one
RowWithdrawalDebit == Row("2025", "YNWAR", DepositWithdrawal, <<"4">>, None)
RowPlacementCredit == Row("2025", "YNWAR", DepositPlacement, None, <<"4">>)
RowInterestCredit == Row("2025", "PBRWAR", DepositInterest, None, <<"4">>)

\* batches of one row each: no item is in two of them
ReimportBatches ==
    {[header |-> expectedHeaders, rows |-> <<row>>] :
        row \in {RowDebit4, RowWithdrawalDebit, RowPlacementCredit, RowInterestCredit}}

\* imports with page loads between them
NextReimport ==
    \/ \E csv \in ReimportBatches : importCSV(csv)
    \/ \E value \in MonthOptions : selectDataEntryMonth(value)
    \/ reload
    \/ saveTimer

SpecReimport == Init /\ [][NextReimport]_vars

RoundTripForms ==
    {Form(Electric, <<"6">>, "income", FALSE), Form(Electric, <<"4">>, "expense", TRUE)}

\* sessions that export their data and import the exported file, in the
\* browser of the export or in another one
NextRoundTrip ==
    \/ \E form \in RoundTripForms : addTransaction(form)
    \/ \E id \in IdsInUse : deleteTransaction(id)
    \/ \E month \in Months : saveOpeningBalance(month, <<"7">>)
    \/ exportDataClick
    \/ exportFile # <<>> /\ importData(exportFile[1].data)
    \/ freshSession

SpecRoundTrip == Init /\ [][NextRoundTrip]_vars

\* the document another client has uploaded
RemoteDocument ==
    uploadDocument([Constructed EXCEPT
                      !.transactions = <<SavedTransaction(101, Coffee, Misc, -4, "expense",
                                                          1, 2024)>>,
                      !.mappings = <<Entry(Coffee, Misc)>>,
                      !.openingBalances = (Key(2024, 1) :> 7),
                      !.manualOpeningBalances = {Key(2024, 1)},
                      !.lastSelectedYear = 2024,
                      !.currentYear = 2024])

SyncForms == {Form(Electric, <<"4">>, "expense", FALSE)}

\* a new session whose DropboxSync has loaded settings with an access token,
\* over a Dropbox folder with no file yet
InitSync ==
    /\ transactions = <<>>
    /\ importedCheckItems = <<>>
    /\ mappings = defaultMappings
    /\ incomeItems = defaultIncomeItems
    /\ categories = defaultCategories
    /\ openingBalances = EmptyMap
    /\ manualOpeningBalances = {}
    /\ currentYear = 2025
    /\ lastSelectedYear = 0
    /\ currentTab = "data-entry"
    /\ pendingTab = FALSE
    /\ monthSelect = 1
    /\ dataEntryMonthSelect = Pad2(monthSelect)
    /\ editId = 0
    /\ editMonth = 0
    /\ budgetData = <<>>
    /\ pendingSave = FALSE
    /\ csvFile = NoCsv
    /\ nextId = 1
    /\ ev = Event("init", TRUE)
    /\ \E auto \in BOOLEAN, both \in BOOLEAN :
          dropboxSync = [NoSync EXCEPT !.accessToken = TRUE,
                                       !.autoSyncEnabled = auto,
                                       !.biDirectionalSyncEnabled = both]
    /\ dropboxFile = NoFile
    /\ requests = <<>>
    /\ exportFile = <<>>

\* the session and Dropbox: handlers that save, the buttons and the timer of
\* DropboxSync, the requests on their way, and another client
NextSync ==
    \/ \E form \in SyncForms : addTransaction(form)
    \/ \E id \in IdsInUse : deleteTransaction(id)
    \/ uploadClick
    \/ downloadClick
    \/ checkForRemoteUpdates
    \/ \E i \in 1..Len(requests) : serve(i)
    \/ \E i \in 1..Len(requests) : fail(i)
    \/ \E i \in 1..Len(requests) : uploadResponse(i)
    \/ \E i \in 1..Len(requests) : downloadResponse(i)
    \/ \E i \in 1..Len(requests) : metadataResponse(i)
    \/ otherClient(RemoteDocument)

SpecSync == InitSync /\ [][NextSync]_vars

\* a new session with an access token and auto-sync on
InitAutoSync ==
    /\ InitSync
    /\ dropboxSync.autoSyncEnabled

\* what Dropbox and the browser do with a request on its way
Network ==
    \/ \E i \in 1..Len(requests) : serve(i)
    \/ \E i \in 1..Len(requests) : uploadResponse(i)
    \/ \E i \in 1..Len(requests) : downloadResponse(i)
    \/ \E i \in 1..Len(requests) : metadataResponse(i)
    \/ \E i \in 1..Len(requests) : notFound(i)

\* this client alone with Dropbox: every upload succeeds and no other
\* client writes
NextAutoSync ==
    \/ \E form \in SyncForms : addTransaction(form)
    \/ downloadClick
    \/ checkForRemoteUpdates
    \/ Network

\* every request is served and answered in the end; the user may stop
SpecAutoSync == InitAutoSync /\ [][NextAutoSync]_vars /\ WF_vars(Network)

-----------------------------------------------------------------------------
(* Claims on imported check items, specification SpecChecks *)

CheckItemOps == {"addSpecialCheckItem", "editImportedCheckItem", "deleteImportedCheckItem"}

\* after an import: the rows of the check marker are check items and no
\* transactions
MarkerRowsDiverted ==
    (ev.op = "importCSV" /\ ev.ok) =>
        /\ Len(ev.result.checkItems)
              = Len(SelectSeq(SelectSeq(DataRowsOf(csvFile), RowSomeSided), RowIsCheckMarker))
        /\ Len(ev.result.transactions)
              = Len(SelectSeq(SelectSeq(DataRowsOf(csvFile), RowSomeSided), RowIsPlain))
        /\ \A i \in 1..Len(transactions) : transactions[i].item # CheckMarker

ClosingUnchanged ==
    \A year \in Years, month \in Months :
        ClosingOf(transactions', openingBalances', month, year)
           = ClosingOf(transactions, openingBalances, month, year)

\* C10 as stated: the rows of the check marker go to importedCheckItems and
\* not to transactions, and adding, editing or deleting an imported check item
\* leaves calculateClosingBalance as it was for every year and month.
C10_CheckItemsLeaveClosingBalances ==
    [][/\ MarkerRowsDiverted'
       /\ ev'.op \in CheckItemOps => ClosingUnchanged]_vars

\* C10, amended: the rows of the check marker go to importedCheckItems and
\* not to transactions; adding, editing or deleting an imported check item
\* leaves the transactions as they were, and calculateClosingBalance as it was
\* for every year and month unless the step refreshed the balance summary of
\* the month on display (adding, on the monthly tab), which stores that
\* month's opening balance as derived from the transactions alone.
C10_CheckItemsOutsideBalance ==
    [][/\ MarkerRowsDiverted'
       /\ ev'.op \in CheckItemOps =>
             /\ transactions' = transactions
             /\ ~ev'.view.ran => ClosingUnchanged
             /\ ev'.view.ran =>
                   /\ ev'.op = "addSpecialCheckItem"
                   /\ currentTab = "monthly"
                   /\ openingBalances' =
                         updateBalanceSummary(transactions, openingBalances,
                                              manualOpeningBalances, currentYear,
                                              monthSelect).openingBalances]_vars

\* a check item was added while the monthly tab shows a month behind a month
\* with transactions
C10_Witness ==
    /\ ev.op = "addSpecialCheckItem"
    /\ ev.view.ran
    /\ ev.view.month > 1
    /\ importedCheckItems # <<>>
    /\ transactions # <<>>
    /\ calculateClosingBalance(ev.view.month - 1, currentYear) # 0

\* C11: every imported check item in the store has a negative amount, whether
\* the import made it from a row of the check marker (with a debit or with a
\* credit) or the transaction form made it as a special check item.
C11_CheckItemsNegative ==
    \A i \in 1..Len(importedCheckItems) : importedCheckItems[i].amount < 0

-----------------------------------------------------------------------------
(* Claims on the classification of items, specification SpecClassify *)

NormalizedItem(item) == StripQuotes(Trim(item))
HasDepositMarker(n) == Includes(n, Deposit1) \/ Includes(n, Deposit2)
ExactKeys(m, n) == {i \in 1..Len(m) : m[i].item = n}
PartialKeys(m, n) ==
    {i \in 1..Len(m) : Includes(n, m[i].item) \/ Includes(m[i].item, n)}
First(S) == CHOOSE i \in S : \A j \in S : i <= j

\* the category the priority list gives an item, ni telling whether the
\* normalized item is of the national insurance family
CategoryByPriority(m, n, ni, category) ==
    /\ HasDepositMarker(n) => category = DepositCategory
    /\ ~HasDepositMarker(n) /\ ni => category = NationalInsurance
    /\ ~HasDepositMarker(n) /\ ~ni /\ ExactKeys(m, n) # {}
          => category = OrUncategorized(m[First(ExactKeys(m, n))].category)
    /\ ~HasDepositMarker(n) /\ ~ni /\ ExactKeys(m, n) = {} /\ PartialKeys(m, n) # {}
          => category = OrUncategorized(m[First(PartialKeys(m, n))].category)
    /\ ~HasDepositMarker(n) /\ ~ni /\ PartialKeys(m, n) = {}
          => category = Uncategorized

\* C12 as stated: first match wins in the order deposit marker, item equal
\* to or starting with the national insurance token, exact mapping match,
\* substring match in insertion order, 'uncategorized'.
C12_CategoryPriorityAnyPrefix ==
    ev.op = "getCategoryForItem" =>
        CategoryByPriority(mappings, NormalizedItem(ev.item),
                           StartsWith(NormalizedItem(ev.item), BituachLeumi),
                           ev.category)

\* C12, amended: first match wins in the order deposit marker, item equal to
\* the national insurance token or starting with its G variant, exact
\* mapping match, substring match in insertion order, 'uncategorized'.
C12_CategoryPriority ==
    ev.op = "getCategoryForItem" =>
        CategoryByPriority(mappings, NormalizedItem(ev.item),
                           \/ NormalizedItem(ev.item) = BituachLeumi
                           \/ StartsWith(NormalizedItem(ev.item), BituachLeumiG),
                           ev.category)

\* a deposit item and a national insurance item went past mapping entries of
\* their own, to the fixed categories
C12_Witness ==
    /\ ev.op = "getCategoryForItem"
    /\ MapHas(mappings, NormalizedItem(ev.item))
    /\ MapGet(mappings, NormalizedItem(ev.item)).category = Misc
    /\ ev.category \in {DepositCategory, NationalInsurance}

\* the keys that differ from the normalized item in letter case only
CaseVariantKeys(m, n) ==
    {i \in 1..Len(m) : m[i].item # n /\ toLowerCase(m[i].item) = toLowerCase(n)}

\* C13 as stated: an item that differs from a mapping key in letter case
\* only resolves, by the substring fallback, to that mapping's category.
C13_CaseVariantResolved ==
    (ev.op = "getCategoryForItem"
        /\ CaseVariantKeys(mappings, NormalizedItem(ev.item)) # {})
    => ev.category
          = mappings[First(CaseVariantKeys(mappings, NormalizedItem(ev.item)))].category

\* C13, amended: an item that differs from a mapping key in letter case
\* only fails the exact match and the substring fallback alike; with no
\* special case and no other key matching it, it is 'uncategorized'.
C13_CaseVariantUncategorized ==
    (ev.op = "getCategoryForItem"
        /\ CaseVariantKeys(mappings, NormalizedItem(ev.item)) # {}
        /\ \A i \in PartialKeys(mappings, NormalizedItem(ev.item)) :
               i \in CaseVariantKeys(mappings, NormalizedItem(ev.item)))
    => ev.category = Uncategorized

C13_Witness ==
    /\ ev.op = "getCategoryForItem"
    /\ ev.item = superMarket
    /\ MapHas(mappings, SuperMarket)
    /\ MapGet(mappings, SuperMarket).category = Groceries
    /\ ev.category = Uncategorized

IsIncomeItem(items, item) == \E i \in 1..Len(items) : items[i] = item
PartialIncomeItem(items, item) ==
    \E i \in 1..Len(items) : Includes(item, items[i]) \/ Includes(items[i], item)
DepositIncome(n) ==
    HasDepositMarker(n) /\ (Includes(n, Withdrawal) \/ Includes(n, Redemption)
                                \/ Includes(n, Interest))
DepositExpense(n) == HasDepositMarker(n) /\ ~DepositIncome(n) /\ Includes(n, Placement)

\* C14: getTransactionType gives 'income' to a deposit item with a
\* withdrawal, redemption or interest marker and 'expense' to a deposit item
\* with a placement marker; to any other item 'income' when it is in the
\* income item set or is a substring of an income item or has one as a
\* substring, else 'expense'; whatever the mapping table holds.
C14_TypePriority ==
    ev.op = "getTransactionType" =>
        LET n == toLowerCase(Trim(ev.item))
        IN  /\ DepositIncome(n) => ev.type = "income"
            /\ DepositExpense(n) => ev.type = "expense"
            /\ ~DepositIncome(n) /\ ~DepositExpense(n) =>
                  ev.type = IF \/ IsIncomeItem(incomeItems, ev.item)
                               \/ PartialIncomeItem(incomeItems, ev.item)
                            THEN "income" ELSE "expense"

\* a deposit placement that is itself an income item came out an expense,
\* under a mapping table that has an entry
C14_Witness ==
    /\ ev.op = "getTransactionType"
    /\ IsIncomeItem(incomeItems, ev.item)
    /\ DepositExpense(toLowerCase(Trim(ev.item)))
    /\ ev.type = "expense"
    /\ mappings # <<>>

-----------------------------------------------------------------------------
(* Claims on calculateClosingBalance, specification SpecClosing *)

\* the period of a transaction: one with no year is of the session's
\* current year
InPeriod(t, month, year) ==
    t.month = month /\ (IF t.year = 0 THEN currentYear ELSE t.year) = year

RECURSIVE PeriodSum(_, _, _, _)
PeriodSum(txs, type, month, year) ==
    IF txs = <<>> THEN 0
    ELSE (IF InPeriod(Head(txs), month, year) /\ Head(txs).type = type
          THEN (IF type = "expense" THEN Abs(Head(txs).amount) ELSE Head(txs).amount)
          ELSE 0)
         + PeriodSum(Tail(txs), type, month, year)

\* C15: the closing balance of (month, year) is the stored opening balance
\* of the period (0 if none) plus the income, minus the absolute expenses,
\* plus the transfers of the transactions of exactly that period, a
\* transaction with no year being of the session's current year and of no
\* other year.
C15_ClosingBalanceOfPeriod ==
    ev.op = "calculateClosingBalance" =>
        ev.closing = StoredOpening(openingBalances, ev.year, ev.month)
                       + PeriodSum(transactions, "income", ev.month, ev.year)
                       - PeriodSum(transactions, "expense", ev.month, ev.year)
                       + PeriodSum(transactions, "transfer", ev.month, ev.year)

\* C16: a call of calculateClosingBalance leaves the session and the saved
\* document as they were, and a second call in the state it leaves returns
\* the value the first call returned.
C16_ClosingBalanceNoSideEffects ==
    [][ev'.op = "calculateClosingBalance" =>
          /\ UNCHANGED <<transactions, importedCheckItems, mappings, incomeItems,
                         categories, openingBalances, manualOpeningBalances,
                         currentYear, lastSelectedYear, currentTab, pendingTab,
                         monthSelect, dataEntryMonthSelect, editId, editMonth,
                         budgetData, pendingSave, csvFile, nextId>>
          /\ ClosingOf(transactions', openingBalances', ev'.month, ev'.year)
                = ev'.closing]_vars

\* a call over a period that has transactions and a stored opening balance
C16_Witness ==
    /\ ev.op = "calculateClosingBalance"
    /\ Key(ev.year, ev.month) \in DOMAIN openingBalances
    /\ \E i \in 1..Len(transactions) : InPeriod(transactions[i], ev.month, ev.year)
    /\ ev.closing # openingBalances[Key(ev.year, ev.month)]

-----------------------------------------------------------------------------
(* Claims on the opening balance of a month, specification SpecChain *)

EntryOf(ob, key) == IF key \in DOMAIN ob THEN <<ob[key]>> ELSE <<>>

\* C17: the opening balance of January is never derived from December of
\* the year before: with no stored entry the opening balance shown for
\* January is 0, and the stored entry of January of a year changes in no
\* step other than a manual edit of that balance.
C17_JanuaryNeverDerived ==
    [][/\ (ev'.view.ran /\ ev'.view.month = 1
              /\ Key(currentYear', 1) \notin DOMAIN openingBalances')
          => ev'.view.openingBalance = 0
       /\ \A year \in Years :
             EntryOf(openingBalances', Key(year, 1)) # EntryOf(openingBalances, Key(year, 1))
                => /\ ev'.op = "saveOpeningBalance"
                   /\ ev'.month = 1
                   /\ currentYear = year]_vars

\* the summary ran for January with nothing stored for it while December of
\* the year before closed with a balance
C17_Witness ==
    /\ ev.view.ran
    /\ ev.view.month = 1
    /\ Key(currentYear, 1) \notin DOMAIN openingBalances
    /\ calculateClosingBalance(December, currentYear - 1) # 0
    /\ ev.view.openingBalance = 0

\* C18: when updateBalanceSummary derives the opening balance of a month
\* m > 1 that is not manual, a closing balance of zero of month m - 1 makes
\* the opening balance 0 and writes nothing (openingBalances and
\* manualOpeningBalances stay, nothing is saved); a closing balance other
\* than zero is stored in openingBalances under the key and saved, and the
\* key is not made manual.
C18_ZeroNotCached ==
    [][(/\ ev'.view.ran
        /\ ev'.view.month > 1
        /\ ev'.op # "saveOpeningBalance"
        /\ Key(currentYear', ev'.view.month) \notin manualOpeningBalances)
       => LET key == Key(currentYear', ev'.view.month)
              prevClosing == ClosingOf(transactions', openingBalances',
                                       ev'.view.month - 1, currentYear')
          IN  /\ manualOpeningBalances' = manualOpeningBalances
              /\ prevClosing = 0 =>
                    /\ ev'.view.openingBalance = 0
                    /\ openingBalances' = openingBalances
                    /\ ev'.op \in {"selectMonth", "tabTimer"} => budgetData' = budgetData
              /\ prevClosing # 0 =>
                    /\ ev'.view.openingBalance = prevClosing
                    /\ openingBalances' = (key :> prevClosing) @@ openingBalances
                    /\ budgetData' # <<>>
                    /\ budgetData'[1].openingBalances = openingBalances']_vars

\* the summary ran for a month whose stored opening balance is stale: the
\* month before closes at zero, and the stored value stays
C18_Witness ==
    /\ ev.view.ran
    /\ ev.op \in {"selectMonth", "tabTimer"}
    /\ ev.view.month > 1
    /\ ViewKey \notin manualOpeningBalances
    /\ calculateClosingBalance(ev.view.month - 1, currentYear) = 0
    /\ ViewKey \in DOMAIN openingBalances
    /\ openingBalances[ViewKey] # 0
    /\ ev.view.openingBalance = 0

-----------------------------------------------------------------------------
(* Claims on loadData, specification SpecLoad *)

\* C19: the fixes of loadData are idempotent: when the document of
\* localStorage is the one saveData writes of the session, loading it again
\* gives the session back as it is, changes no data and schedules no save.
C19_LoadAfterSaveChangesNothing ==
    [][(ev'.op = "loadData" /\ budgetData = <<saveData(Core)>>)
          => /\ Core' = Core
             /\ ~pendingSave'
             /\ ev'.ok
             /\ budgetData' = budgetData]_vars

\* loaded again after the save that followed a load which had fixed the
\* document, no handler having saved in between
C19_Witness ==
    /\ ev.op = "loadData"
    /\ ev.repeat
    /\ lastSelectedYear = 0
    /\ transactions # <<>>
    /\ \A i \in 1..Len(transactions) : transactions[i].id > MaxId
    /\ budgetData # <<>>
    /\ budgetData[1] \notin SavedDocs

DocKeys(json) == {json[i].item : i \in 1..Len(json)}
Members(list) == {list[i] : i \in 1..Len(list)}

\* C20: loadData unites the saved document with the defaults: every mapping
\* of the document is in the table with its own category and flag, also
\* when a default has the same item, every income item and category of the
\* document is kept, and what the session holds beyond the document are
\* defaults of items, income items and categories the document lacks.
C20_LoadKeepsDocumentEntries ==
    (ev.op = "loadData" /\ budgetData # <<>>) =>
        /\ "mappings" \in DOMAIN budgetData[1] =>
              /\ \A i \in 1..Len(budgetData[1].mappings) :
                    /\ MapHas(mappings, budgetData[1].mappings[i].item)
                    /\ "string" \in DOMAIN budgetData[1].mappings[i].value =>
                          MapGet(mappings, budgetData[1].mappings[i].item).category
                             = budgetData[1].mappings[i].value.string
                    /\ ("category" \in DOMAIN budgetData[1].mappings[i].value
                           /\ budgetData[1].mappings[i].value.category # "") =>
                          MapGet(mappings, budgetData[1].mappings[i].item).category
                             = budgetData[1].mappings[i].value.category
                    /\ "includeInMonthlyExpenses"
                              \in DOMAIN budgetData[1].mappings[i].value =>
                          MapGet(mappings, budgetData[1].mappings[i].item)
                                .includeInMonthlyExpenses
                             = budgetData[1].mappings[i].value.includeInMonthlyExpenses
              /\ \A j \in 1..Len(mappings) :
                    mappings[j].item \notin DocKeys(budgetData[1].mappings) =>
                       mappings[j] \in Members(loadDefaultMappings)
        /\ "incomeItems" \in DOMAIN budgetData[1] =>
              /\ Members(budgetData[1].incomeItems) \subseteq Members(incomeItems)
              /\ Members(incomeItems) \ Members(budgetData[1].incomeItems)
                    \subseteq Members(loadDefaultIncomeItems)
        /\ "categories" \in DOMAIN budgetData[1] =>
              /\ Members(budgetData[1].categories) \subseteq Members(categories)
              /\ Members(categories) \ Members(budgetData[1].categories)
                    \subseteq Members(loadDefaultCategories)

\* a document whose mapping of electricity is the user's own was loaded; the
\* mapping is kept, and the default of salary, which it lacks, was added
C20_Witness ==
    /\ ev.op = "loadData"
    /\ budgetData # <<>>
    /\ "mappings" \in DOMAIN budgetData[1]
    /\ Electric \in DocKeys(budgetData[1].mappings)
    /\ Salary \notin DocKeys(budgetData[1].mappings)
    /\ MapGet(mappings, Electric).category = Misc
    /\ MapGet(mappings, Electric).includeInMonthlyExpenses
    /\ MapHas(mappings, Salary)
    /\ Members(budgetData[1].incomeItems) # Members(incomeItems)

\* C21: after loadData every transaction of a deposit item with a
\* withdrawal, redemption or interest marker is an income of amount zero or
\* more, and every transaction of a deposit item with a placement marker and
\* none of those is an expense of amount zero or less, whatever the document
\* held.
C21_DepositTypesAfterLoad ==
    ev.op = "loadData" =>
        \A i \in 1..Len(transactions) :
            /\ DepositIncome(transactions[i].item) =>
                   transactions[i].type = "income" /\ transactions[i].amount >= 0
            /\ DepositExpense(transactions[i].item) =>
                   transactions[i].type = "expense" /\ transactions[i].amount <= 0

-----------------------------------------------------------------------------
(* Claims on the Dropbox synchronisation, specification SpecSync *)

\* the request whose answer the step handles
Answered ==
    CHOOSE i \in 1..Len(requests) :
        SubSeq(requests', 1, Len(requests) - 1) = Remove(requests, i)

\* the answer says that the file is newer than the last one known
RemoteIsNewer ==
    /\ requests[Answered].ok
    /\ dropboxSync.lastRemoteModified # 0
    /\ requests[Answered].server_modified > dropboxSync.lastRemoteModified

DownloadsOnTheirWay(reqs) == {i \in 1..Len(reqs) : reqs[i].kind = "download"}

-----------------------------------------------------------------------------
(* Claims on the edit of a transaction, specification SpecEdit *)

\* C23: the submit of the transaction form in edit mode leaves the id, the
\* month and the year of the edited transaction as they were, whatever was
\* done to the selectors of the page while the form was open.
C23_EditKeepsIdMonthYear ==
    [][ev'.op = "editTransaction"
          => \E i \in 1..Len(transactions) :
                /\ transactions[i].id = editId
                /\ transactions'[i].id = transactions[i].id
                /\ transactions'[i].month = transactions[i].month
                /\ transactions'[i].year = transactions[i].year]_vars

\* C26: at most one upload or download is on its way at a time, and
\* syncInProgress tells whether one is: a call of uploadToDropbox or
\* downloadFromDropbox made while it is true returns false, sends no request
\* and leaves the session and localStorage alone, and the end of the
\* transfer, by an ok response, an error response or an exception, sets it
\* to false.
C26_OneTransferAtATime ==
    [][/\ Cardinality(Transfers(requests')) <= 1
       /\ dropboxSync'.syncInProgress <=> Transfers(requests') # {}
       /\ (ev'.op \in {"uploadToDropbox", "downloadFromDropbox"}
              /\ dropboxSync.syncInProgress)
             => /\ ~ev'.ok
                /\ requests' = requests
                /\ Core' = Core
                /\ budgetData' = budgetData
       /\ (ev'.op = "metadataResponse" /\ dropboxSync.syncInProgress)
             => /\ requests' = Remove(requests, Answered)
                /\ Core' = Core
       /\ (ev'.op \in {"uploadResponse", "downloadResponse"}
              \/ (ev'.op = "fail" /\ ev'.type \in {"upload", "download"}))
             => ~dropboxSync'.syncInProgress]_vars

\* the upload button was pressed while a download was on its way, and
\* nothing was sent
C26_Witness ==
    /\ ev.op = "uploadToDropbox"
    /\ ~ev.ok
    /\ dropboxSync.syncInProgress
    /\ Cardinality(Transfers(requests)) = 1
    /\ \E i \in Transfers(requests) : requests[i].kind = "download"

UploadsOnTheirWay(reqs) == {i \in 1..Len(reqs) : reqs[i].kind = "upload"}

-----------------------------------------------------------------------------
(* Claims on the category of imported transactions, specification SpecAssign *)

Imported == {i \in 1..Len(transactions') : i > Len(transactions)}

\* C24 as first stated: every transaction an import adds has the category
\* getCategoryForItem gives its item on the mapping table of that time.
C24_ImportedCategoryOfMapping ==
    [][(ev'.op = "importCSV" /\ ev'.ok)
          => \A i \in Imported :
                transactions'[i].category
                   = getCategoryForItem(mappings, transactions'[i].item)]_vars

\* C24: every transaction an import adds has payment method 'check' when its
\* item holds the check word and 'cash' when not; a check payment has the
\* miscellaneous category, every other transaction the category
\* getCategoryForItem gives its item on the mapping table of that time.
C24_ImportedCategoryAndPayment ==
    [][(ev'.op = "importCSV" /\ ev'.ok)
          => \A i \in Imported :
                /\ Includes(transactions'[i].item, CheckWord)
                      => /\ transactions'[i].paymentMethod = "check"
                         /\ transactions'[i].category = Misc
                /\ ~Includes(transactions'[i].item, CheckWord)
                      => /\ transactions'[i].paymentMethod = "cash"
                         /\ transactions'[i].category
                               = getCategoryForItem(mappings, transactions'[i].item)]_vars

\* an import has added a check payment for electricity, of the miscellaneous
\* category though the mapping table has electricity under taxes, next to a
\* cash transaction of the category the table gives
C24_Witness ==
    /\ ev.op = "importCSV" /\ ev.ok
    /\ ev.added = 2
    /\ \E i \in 1..Len(transactions) :
          /\ transactions[i].paymentMethod = "check"
          /\ transactions[i].category = Misc
          /\ getCategoryForItem(mappings, transactions[i].item) = Taxes
    /\ \E i \in 1..Len(transactions) :
          /\ transactions[i].paymentMethod = "cash"
          /\ transactions[i].category = Taxes

-----------------------------------------------------------------------------
(* Claims on auto-sync, specification SpecAutoSync *)

\* C25: with auto-sync on and a token set, after every saveData the file of
\* Dropbox comes to hold the document of the session as saved last, uploads
\* succeeding and no other client writing, also when the save falls into a
\* transfer on its way.
C25_SavedStateReachesDropbox ==
    [](budgetData # <<>> => <>(dropboxFile.data = <<uploadDocument(Core)>>))

-----------------------------------------------------------------------------
(* Claims on imports across page loads, specification SpecReimport *)

\* the store holds a transaction of the item of the batch: the batch has been
\* imported before, no other handler of SpecReimport adding transactions
WasImported(csv) ==
    \E i \in 1..Len(transactions) : transactions[i].item = Trim(csv.rows[1][3])

\* C28: an import that follows the load of a saved session adds no
\* transaction when its batch has been imported before the load.
C28_ReimportAfterLoadAddsNothing ==
    [][(ev.op = "loadData" /\ ev'.op = "importCSV" /\ ev'.ok /\ WasImported(csvFile'))
          => /\ ev'.added = 0
             /\ transactions' = transactions]_vars

-----------------------------------------------------------------------------
(* Claims on the two balance computations, specification SpecBalance *)

\* C29: right after updateBalanceSummary has run for a month of the current
\* year, the closing balance it shows is calculateClosingBalance of the month
\* and the opening balance it shows is the value stored for the key, or 0
\* with none stored.
C29_ShownClosingIsCalculatedClosing ==
    ev.view.ran
    => /\ ev.view.closingBalance = calculateClosingBalance(ev.view.month, currentYear)
       /\ ev.view.openingBalance = StoredOpening(openingBalances, currentYear, ev.view.month)

-----------------------------------------------------------------------------
(* Claims on export and import, specification SpecRoundTrip *)

\* C30: after importData of the file exportData has written, the
\* transactions, the imported check items, the mapping table, the opening
\* balances and the set of manual keys are those of the session at the time
\* of the export.
C30_ExportImportRoundTrip ==
    (ev.op = "importData" /\ exportFile # <<>>)
    => /\ transactions = exportFile[1].from.transactions
       /\ importedCheckItems = exportFile[1].from.importedCheckItems
       /\ mappings = exportFile[1].from.mappings
       /\ openingBalances = exportFile[1].from.openingBalances
       /\ manualOpeningBalances = exportFile[1].from.manualOpeningBalances

====
